---------------------------- MODULE Spec2Model ----------------------------
(***************************************************************************)
(* EMG signal-processing demos of the Delsys-Project repository:          *)
(*   src/src/EMGProcessingSimulation.cpp  (variant "EMG":  hp, bp, lp,     *)
(*                                         pause and adjustable cutoff)    *)
(*   src/src/Wave_Processing.cpp          (variant "WAVE": hp, bp, notch,  *)
(*                                         lp as free functions)           *)
(*   src/unnamed/part_000                 (variant "P000": hp, bp, lp,     *)
(*                                         Filter class, no keys)          *)
(*   src/src/Filter.cpp, src/src/Filter.h (class Filter, rectify)          *)
(*                                                                         *)
(* C++ float values are modelled in fixed point: the integer v stands for  *)
(* the real number v / SCALE.  Every multiplication and division rounds    *)
(* toward zero to that resolution, a result beyond FLT_MAX overflows to    *)
(* an infinity, and NaN / +Inf / -Inf are values of their own that follow  *)
(* the IEEE-754 rules (x/0, 0/0, Inf-Inf, 0*Inf, sin(Inf), ...).  The sign *)
(* of zero is not modelled.                                                *)
(***************************************************************************)
EXTENDS Integers, Sequences, FiniteSets, TLC

\* ------------------------------------------------------------------------
\* Fixed-point model of float
\* ------------------------------------------------------------------------

\* Resolution of the model's numbers: SCALE = K * K units per 1.0.
K == 512
SCALE == K * K
\* Largest finite magnitude (4096.0 - 1 unit); beyond it a result is infinite.
FLT_MAX == 4096 * SCALE - 1
PInf == FLT_MAX + 1
NInf == 0 - PInf
NaN == FLT_MAX + 2

IsNaN(x) == x = NaN
IsInf(x) == x = PInf \/ x = NInf
IsFinite(x) == ~IsNaN(x) /\ ~IsInf(x)

Mag(n) == IF n < 0 THEN 0 - n ELSE n
Sign(n) == IF n < 0 THEN 0 - 1 ELSE 1
SignedInf(s) == IF s < 0 THEN NInf ELSE PInf

\* An integer literal of the source (5.0f, 2000.0f) as a model number.
FromInt(n) == n * SCALE

FNeg(x) == IF IsNaN(x) THEN NaN ELSE 0 - x

\* std::abs(float)
FAbs(x) == IF IsNaN(x) THEN NaN ELSE Mag(x)

\* float + float
FAdd(a, b) ==
    IF IsNaN(a) \/ IsNaN(b) THEN NaN
    ELSE IF IsInf(a) /\ IsInf(b) THEN (IF a = b THEN a ELSE NaN)
    ELSE IF IsInf(a) THEN a
    ELSE IF IsInf(b) THEN b
    ELSE IF a >= 0 /\ b >= 0 THEN (IF a > FLT_MAX - b THEN PInf ELSE a + b)
    ELSE IF a < 0 /\ b < 0 THEN (IF a < (0 - FLT_MAX) - b THEN NInf ELSE a + b)
    ELSE a + b

\* float - float
FSub(a, b) == FAdd(a, FNeg(b))

\* The magnitude m, or the overflow PInf, under the sign s.
Signed(s, m) == IF m = PInf THEN SignedInf(s) ELSE s * m

\* A finite magnitude, or PInf past FLT_MAX.
Capped(m) == IF m > FLT_MAX THEN PInf ELSE m

\* |a| * |b| / SCALE of two finite magnitudes, rounded down; PInf on overflow.
\* The product is taken in halves (p = ph*K + pl) to stay inside 32 bits.
MulMag(p, q) ==
    IF p \div K > 0 /\ q \div K > FLT_MAX \div (p \div K) THEN PInf
    ELSE Capped((p \div K) * (q \div K)
                + (((p \div K) * (q % K) + (p % K) * (q \div K))
                   + ((p % K) * (q % K)) \div K) \div K)

\* float * float
FMul(a, b) ==
    IF IsNaN(a) \/ IsNaN(b) THEN NaN
    ELSE IF IsInf(a) \/ IsInf(b)
         THEN (IF a = 0 \/ b = 0 THEN NaN ELSE SignedInf(Sign(a) * Sign(b)))
    ELSE Signed(Sign(a) * Sign(b), MulMag(Mag(a), Mag(b)))

\* <<e + rest \div q, rest % q>>: the estimate e of a quotient digit put right.
Adjusted(e, rest, q) == <<e + rest \div q, rest % q>>

\* <<floor(r * K / q), (r * K) % q>> for 0 <= r < q.  When r * K does not fit
\* in 32 bits, the quotient is estimated from below with q rounded up to a
\* multiple of K, and the estimate is at most one short.
MulKDiv(r, q) ==
    IF q <= 2147483647 \div K THEN <<(r * K) \div q, (r * K) % q>>
    ELSE Adjusted(r \div (q \div K + 1),
                  K * (r - (r \div (q \div K + 1)) * (q \div K))
                  - (r \div (q \div K + 1)) * (q % K),
                  q)

\* whole * SCALE + floor(r * SCALE / q), where high = MulKDiv(r, q).
Joined(whole, high, q) == whole * SCALE + high[1] * K + MulKDiv(high[2], q)[1]

\* floor(p * SCALE / q) of two magnitudes, q > 0; PInf on overflow.
QuotMag(p, q) ==
    IF p \div q > FLT_MAX \div SCALE THEN PInf
    ELSE Capped(Joined(p \div q, MulKDiv(p % q, q), q))

\* float / float
FDiv(a, b) ==
    IF IsNaN(a) \/ IsNaN(b) THEN NaN
    ELSE IF IsInf(a) THEN (IF IsInf(b) THEN NaN ELSE SignedInf(Sign(a) * Sign(b)))
    ELSE IF IsInf(b) THEN 0
    ELSE IF b = 0 THEN (IF a = 0 THEN NaN ELSE SignedInf(Sign(a)))
    ELSE Signed(Sign(a) * Sign(b), QuotMag(Mag(a), Mag(b)))

\* A decimal literal of the source, n/d (0.2f is Dec(2, 10)).
Dec(n, d) == Sign(n) * QuotMag(Mag(n), d)

\* #define PI 3.14159265358979323846
PI == Dec(314159265, 100000000)
TWO_PI == 2 * PI
HALF_PI == PI \div 2

\* 1 - z2/d1 (1 - z2/d2 (1 - z2/d3 (1 - z2/d4))) for a magnitude z2 <= 1.0: the
\* Taylor polynomials of sin(z)/z and cos(z) in z2 = z*z.
Horner(z2, d1, d2, d3, d4) ==
    SCALE - MulMag(z2, SCALE - MulMag(z2, SCALE - MulMag(z2, SCALE - z2 \div d4)
                                                  \div d3) \div d2) \div d1

\* sin and cos on [0, pi/4]
SinPoly(z) == MulMag(z, Horner(MulMag(z, z), 6, 20, 42, 72))
CosPoly(z) == Horner(MulMag(z, z), 2, 12, 30, 56)

\* sin on [0, pi/2]: past pi/4 by the co-function.
SinQ(z) == IF 2 * z <= HALF_PI THEN SinPoly(z) ELSE CosPoly(HALF_PI - z)

\* An angle y of [0, 2 pi) folded into [0, pi/2]: sin(y) = +-sin(Folded(y)) and
\* cos(y) = +-sin(pi/2 - Folded(y)).
Folded(y) ==
    IF y <= HALF_PI THEN y
    ELSE IF y <= PI THEN PI - y
    ELSE IF y <= PI + HALF_PI THEN y - PI
    ELSE TWO_PI - y

\* sin(float)
FSin(x) ==
    IF ~IsFinite(x) THEN NaN
    ELSE (IF x % TWO_PI <= PI THEN 1 ELSE 0 - 1) * SinQ(Folded(x % TWO_PI))

\* cos(float)
FCos(x) ==
    IF ~IsFinite(x) THEN NaN
    ELSE (IF HALF_PI < x % TWO_PI /\ x % TWO_PI <= PI + HALF_PI THEN 0 - 1 ELSE 1)
         * SinQ(HALF_PI - Folded(x % TWO_PI))

\* The root in model units given the integer root s of x: K*s .. K*s + K - 1.
Refined(s, x) ==
    K * s + (CHOOSE n \in 0..(K - 1) :
               /\ 2 * s * n + (n * n + K - 1) \div K <= K * (x - s * s)
               /\ (n = K - 1
                   \/ 2 * s * (n + 1) + ((n + 1) * (n + 1) + K - 1) \div K > K * (x - s * s)))

\* sqrt(float), rounded down.
FSqrt(x) ==
    IF IsNaN(x) \/ x < 0 THEN NaN
    ELSE IF x = PInf THEN PInf
    ELSE Refined(CHOOSE n \in 0..(K * 64) : n * n <= x /\ x < (n + 1) * (n + 1), x)

\* log(2.0f)
LN2 == Dec(69314718, 100000000)

\* 1 + z2/d1 (1 + z2/d2 (1 + z2/d3 (1 + z2/d4))): the Taylor polynomial of
\* sinh(z)/z in z2 = z*z.
HornerUp(z2, d1, d2, d3, d4) ==
    SCALE + MulMag(z2, SCALE + MulMag(z2, SCALE + MulMag(z2, SCALE + z2 \div d4)
                                                  \div d3) \div d2) \div d1

\* sinh(float), by its Taylor polynomial (used on one small constant only).
FSinh(x) ==
    IF ~IsFinite(x) THEN x
    ELSE Sign(x) * MulMag(Mag(x), HornerUp(MulMag(Mag(x), Mag(x)), 6, 20, 42, 72))

\* ------------------------------------------------------------------------
\* Bounds of the model
\* ------------------------------------------------------------------------

\* Ring capacities explored: BUFFER_SIZE ranges over 2..MaxBufferSize (the
\* source fixes it at 1000).
MaxBufferSize == 3
\* Samples generated in one run.
MaxTicks == 4
\* Key events delivered by the window system in one run.
MaxKeys == 2
\* process calls on the stand-alone filter, and calls of the stand-alone
\* generator.
MaxCalls == 3
\* Samples generated in a run that follows the burst logic: one more than
\* the ring's capacity, so that the cursor wraps.
MaxSamples == 1001
\* Presses of the pause key in such a run.
MaxPauses == 2
\* Key events in a run that follows the cutoff keys, and the most that
\* glfwPollEvents finds queued at once in such a run.
MaxKeyPresses == 10
MaxPending == 2
\* Samples fed to the stand-alone envelope detector: long enough for the
\* low-pass stage, whose ring is about a thousand samples long, to swing back.
MaxEnvelopeTicks == 800
\* Samples acquired by PhysiologicalSignalProcessor in a run with one client
\* thread: two more than the buffer keeps, so that two evictions happen.
MaxAcquired == 102
\* Samples acquired in a run with two client threads.
MaxRacing == 2
\* Calls each client thread makes on the processor.
MaxOps == 2
\* Samples whose EMG value is drawn; the later ones are 0.
MaxNoisy == 1

\* ------------------------------------------------------------------------
\* Program constants
\* ------------------------------------------------------------------------

Variants == {"EMG", "WAVE", "P000"}

SAMPLE_RATE == FromInt(2000)
TIME_STEP == FDiv(FromInt(1), SAMPLE_RATE)
EMG_FREQ == FromInt(20)
NOISE_AMPLITUDE == Dec(2, 10)
POWER_LINE_FREQ(v) == IF v = "EMG" THEN FromInt(3) ELSE FromInt(10)
POWER_LINE_AMPLITUDE(v) == IF v = "EMG" THEN FromInt(1) ELSE Dec(3, 10)
HIGHPASS_CUTOFF == FromInt(5)
BANDPASS_LOW == FromInt(5)
BANDPASS_HIGH == FromInt(50)
NOTCH_FREQ == FromInt(10)
NOTCH_Q == FromInt(30)
LOWPASS_CUTOFF == FromInt(2)

\* ------------------------------------------------------------------------
\* class Filter
\* ------------------------------------------------------------------------

\* sinh(log(2.0f) / 2.0f * 1.0f * PI / 2.0f) of the band-pass case.
BandwidthTerm == FSinh(FDiv(FMul(FMul(FDiv(LN2, FromInt(2)), SCALE), PI), FromInt(2)))

FilterTypes == {"HighPass", "BandPass", "LowPass"}

\* 2.0f * PI * freq / sample_rate
Omega(freq, sample_rate) == FDiv(FMul(TWO_PI, freq), sample_rate)

\* sin(omega) / (2.0f * q)
Alpha(omega, q) == FDiv(FSin(omega), FMul(FromInt(2), q))

\* case FilterType::HighPass, from alpha and c = cos(omega)
HighPassCase(alpha, c) ==
    [a0 |-> FAdd(SCALE, alpha),
     a1 |-> FMul(FromInt(0 - 2), c),
     a2 |-> FSub(SCALE, alpha),
     b0 |-> FDiv(FAdd(SCALE, c), FromInt(2)),
     b1 |-> FNeg(FAdd(SCALE, c)),
     b2 |-> FDiv(FAdd(SCALE, c), FromInt(2))]

\* case FilterType::BandPass, from alpha and cosw = cos(wc)
BandPassCase(alpha, cosw) ==
    [a0 |-> FAdd(SCALE, alpha),
     a1 |-> FMul(FromInt(0 - 2), cosw),
     a2 |-> FSub(SCALE, alpha),
     b0 |-> alpha,
     b1 |-> 0,
     b2 |-> FNeg(alpha)]

\* case FilterType::LowPass, from alpha and c = cos(omega)
LowPassCase(alpha, c) ==
    [a0 |-> FAdd(SCALE, alpha),
     a1 |-> FMul(FromInt(0 - 2), c),
     a2 |-> FSub(SCALE, alpha),
     b0 |-> FDiv(FSub(SCALE, c), FromInt(2)),
     b1 |-> FSub(SCALE, c),
     b2 |-> FDiv(FSub(SCALE, c), FromInt(2))]

\* The angle whose sine gives alpha, and the angle whose cosine gives a1.
AlphaAngle(type, sample_rate, freq1, freq2) ==
    IF type = "BandPass" THEN Omega(FSub(freq2, freq1), sample_rate)
    ELSE Omega(freq1, sample_rate)
CosAngle(type, sample_rate, freq1, freq2) ==
    IF type = "BandPass" THEN Omega(FSqrt(FMul(freq1, freq2)), sample_rate)
    ELSE Omega(freq1, sample_rate)

\* A switch whose band-pass case takes alpha from q like the other two.
SwitchWithQ(type, bw, wc, q) ==
    IF type = "HighPass" THEN HighPassCase(Alpha(bw, q), FCos(wc))
    ELSE IF type = "BandPass" THEN BandPassCase(Alpha(bw, q), FCos(wc))
    ELSE IF type = "LowPass" THEN LowPassCase(Alpha(bw, q), FCos(wc))
    ELSE [a0 |-> SCALE, a1 |-> 0, a2 |-> 0, b0 |-> 0, b1 |-> 0, b2 |-> 0]

\* The switch of the constructor on the angles bw (or omega) and wc (or
\* omega): the coefficients before normalization.
Switch(type, bw, wc, q) ==
    IF type = "HighPass" THEN HighPassCase(Alpha(bw, q), FCos(wc))
    ELSE IF type = "BandPass" THEN BandPassCase(FMul(FSin(bw), BandwidthTerm), FCos(wc))
    ELSE IF type = "LowPass" THEN LowPassCase(Alpha(bw, q), FCos(wc))
    ELSE [a0 |-> SCALE, a1 |-> 0, a2 |-> 0, b0 |-> 0, b1 |-> 0, b2 |-> 0]

RawCoefficients(type, sample_rate, freq1, freq2, q) ==
    Switch(type, AlphaAngle(type, sample_rate, freq1, freq2),
           CosAngle(type, sample_rate, freq1, freq2), q)

\* A constructor that normalizes but leaves x1 as it found it (here 1.0).
NormalizedKeepingDelay(r) ==
    [b0 |-> FDiv(r.b0, r.a0), b1 |-> FDiv(r.b1, r.a0), b2 |-> FDiv(r.b2, r.a0),
     a0 |-> SCALE, a1 |-> FDiv(r.a1, r.a0), a2 |-> FDiv(r.a2, r.a0),
     x1 |-> SCALE, x2 |-> 0, y1 |-> 0, y2 |-> 0]

\* A constructor that divides by a0 but never sets a0 to 1.
NormalizedLeavingA0(r) ==
    [b0 |-> FDiv(r.b0, r.a0), b1 |-> FDiv(r.b1, r.a0), b2 |-> FDiv(r.b2, r.a0),
     a0 |-> r.a0, a1 |-> FDiv(r.a1, r.a0), a2 |-> FDiv(r.a2, r.a0),
     x1 |-> 0, x2 |-> 0, y1 |-> 0, y2 |-> 0]

\* The end of the constructor: every coefficient divided by a0, a0 set to 1,
\* with the delay line the constructor zeroed first.
Normalized(r) ==
    [b0 |-> FDiv(r.b0, r.a0), b1 |-> FDiv(r.b1, r.a0), b2 |-> FDiv(r.b2, r.a0),
     a0 |-> SCALE, a1 |-> FDiv(r.a1, r.a0), a2 |-> FDiv(r.a2, r.a0),
     x1 |-> 0, x2 |-> 0, y1 |-> 0, y2 |-> 0]

\* Filter::Filter(type, sample_rate, freq1, freq2 = 0.0f, q = 1.0f)
Filter(type, sample_rate, freq1, freq2, q) ==
    Normalized(RawCoefficients(type, sample_rate, freq1, freq2, q))

\* The difference equation of Filter::process.
Output(f, input) ==
    FSub(FSub(FAdd(FAdd(FMul(f.b0, input), FMul(f.b1, f.x1)), FMul(f.b2, f.x2)),
              FMul(f.a1, f.y1)),
         FMul(f.a2, f.y2))

\* A process that overwrites both delays with the new values.
ShiftedBoth(f, input, out) ==
    [f EXCEPT !.x2 = input, !.x1 = input, !.y2 = out, !.y1 = out]

\* The filter after Filter::process(input) returned out.
Shifted(f, input, out) ==
    [f EXCEPT !.x2 = f.x1, !.x1 = input, !.y2 = f.y1, !.y1 = out]

\* The value returned and the filter afterwards.
Processed(f, input, out) == [out |-> out, f |-> Shifted(f, input, out)]

\* Filter::process
process(f, input) == Processed(f, input, Output(f, input))

\* A rectifier that passes its input through.
Unrectified(input) == input

\* rectify (Filter.cpp) / rectify (Wave_Processing.cpp)
rectify(input) == FAbs(input)

\* The free filter functions of Wave_Processing.cpp compute their
\* coefficients on every call, by the formulas of the Filter constructor with
\* q = 1.0f, and keep only the delay line between calls.
HighpassCoefficients == Filter("HighPass", SAMPLE_RATE, HIGHPASS_CUTOFF, 0, FromInt(1))
BandpassCoefficients == Filter("BandPass", SAMPLE_RATE, BANDPASS_LOW, BANDPASS_HIGH, FromInt(1))
LowpassCoefficients == Filter("LowPass", SAMPLE_RATE, LOWPASS_CUTOFF, 0, FromInt(1))

\* c with the delay line of f.
WithDelay(c, f) == [c EXCEPT !.x1 = f.x1, !.x2 = f.x2, !.y1 = f.y1, !.y2 = f.y2]

highpass_filter(input, f) == process(WithDelay(HighpassCoefficients, f), input)

bandpass_filter(input, f) == process(WithDelay(BandpassCoefficients, f), input)

lowpass_filter(input, f) == process(WithDelay(LowpassCoefficients, f), input)

\* The raw coefficients of notch_filter from alpha and c = cos(omega); they
\* are never normalized.
NotchCase(alpha, c) ==
    [a0 |-> FAdd(SCALE, alpha),
     a1 |-> FMul(FromInt(0 - 2), c),
     a2 |-> FSub(SCALE, alpha),
     b0 |-> SCALE,
     b1 |-> FMul(FromInt(0 - 2), c),
     b2 |-> SCALE]

NotchCoefficients ==
    NotchCase(Alpha(Omega(NOTCH_FREQ, SAMPLE_RATE), NOTCH_Q),
              FCos(Omega(NOTCH_FREQ, SAMPLE_RATE)))

\* A notch stage that never divides its output by a0.
NotchUndivided(input, f) ==
    Processed(f, input, Output(NotchCoefficients @@ f, input))

\* notch_filter: the difference equation on raw coefficients, divided by a0.
notch_filter(input, f) ==
    Processed(f, input, FDiv(Output(NotchCoefficients @@ f, input), NotchCoefficients.a0))

ZeroDelay == [x1 |-> 0, x2 |-> 0, y1 |-> 0, y2 |-> 0]

\* ------------------------------------------------------------------------
\* Synthetic signal generator
\* ------------------------------------------------------------------------

\* One call's draws from the five uniform distributions, in the order the
\* generator takes them: burst_dist [0,1), burst_scale [1,3), amp_dist
\* [0.8,1.2) twice, freq_dist [0.9,1.1) twice, dist [-0.2,0.2).
DrawLow ==
    [burst |-> Dec(5, 10), scale |-> FromInt(1), amp1 |-> Dec(8, 10), amp2 |-> Dec(8, 10),
     freq1 |-> Dec(9, 10), freq2 |-> Dec(9, 10), noise |-> Dec(0 - 2, 10)]
DrawHigh ==
    [burst |-> Dec(1, 10), scale |-> FromInt(2), amp1 |-> Dec(12, 10), amp2 |-> Dec(12, 10),
     freq1 |-> Dec(11, 10), freq2 |-> Dec(11, 10), noise |-> Dec(19, 100)]
Draws == {DrawLow, DrawHigh}

\* The function-local statics of generate_emg_signal.
GenInit == [phase1 |-> 0, phase2 |-> 0, burst_factor |-> SCALE, burst_duration |-> 0]

\* A trial made when the cursor is a multiple of 64.
TrialEvery64(index) == index % 64 = 0

\* Line 85: the burst trial is made when the cursor is a multiple of 50.
BurstTrial(index) == index % 50 = 0

\* Line 86: the trial succeeds when the draw is below 0.2.
BurstHit(index, d) == BurstTrial(index) /\ d.burst < Dec(2, 10)

\* A trial whose failure always resets the multiplier and disarms the burst.
TrialledResetting(g, trial, hit, d) ==
    IF hit THEN [g EXCEPT !.burst_factor = d.scale, !.burst_duration = 100]
    ELSE IF trial THEN [g EXCEPT !.burst_factor = SCALE, !.burst_duration = 0]
    ELSE g

\* A trial whose failure never resets the multiplier.
TrialledKeeping(g, trial, hit, d) ==
    IF hit THEN [g EXCEPT !.burst_factor = d.scale, !.burst_duration = 100]
    ELSE g

\* Lines 85-92: a successful trial draws the multiplier and arms the
\* countdown; a failed one resets the multiplier when no countdown runs.
Trialled(g, trial, hit, d) ==
    IF hit THEN [g EXCEPT !.burst_factor = d.scale, !.burst_duration = 100]
    ELSE IF trial /\ g.burst_duration <= 0 THEN [g EXCEPT !.burst_factor = SCALE]
    ELSE g

\* The statics after the trial block, before the countdown.
BurstDecision(g, index, d) == Trialled(g, BurstTrial(index), BurstHit(index, d), d)

\* A countdown that runs twice as fast.
CountdownByTwo(g) ==
    IF g.burst_duration > 0 THEN [g EXCEPT !.burst_duration = IF @ > 1 THEN @ - 2 ELSE 0]
    ELSE g

\* Lines 93-95: if (burst_duration > 0) burst_duration--;
Countdown(g) ==
    IF g.burst_duration > 0 THEN [g EXCEPT !.burst_duration = @ - 1] ELSE g

\* Lines 85-95: the burst trial on every 50th cursor value, then the countdown.
BurstStep(g, index, d) == Countdown(BurstDecision(g, index, d))

\* phase += 2.0f * PI * freq * TIME_STEP
Advanced(phase, freq) == FAdd(phase, FMul(FMul(TWO_PI, freq), TIME_STEP))

\* Lines 97-105: the jittered frequencies and the phases.
PhaseStep(g, d) ==
    [g EXCEPT !.phase1 = Advanced(g.phase1, FMul(EMG_FREQ, d.freq1)),
              !.phase2 = Advanced(g.phase2, FMul(FMul(EMG_FREQ, Dec(15, 10)), d.freq2))]

\* Lines 107-110: the value computed from the updated statics.
Computed(v, g, tt, d) ==
    FAdd(FAdd(FMul(g.burst_factor,
                   FAdd(FMul(FMul(Dec(5, 10), d.amp1), FSin(g.phase1)),
                        FMul(FMul(Dec(3, 10), d.amp2), FSin(g.phase2)))),
              FMul(POWER_LINE_AMPLITUDE(v),
                   FSin(FMul(FMul(TWO_PI, POWER_LINE_FREQ(v)), tt)))),
         d.noise)

\* Only EMGProcessingSimulation.cpp checks the value before returning it.
ChecksStability(v) == v = "EMG"

\* Lines 112-118: the value returned.
Returned(v, emg) ==
    IF ChecksStability(v) /\ (IsNaN(emg) \/ IsInf(emg)) THEN 0 ELSE emg

\* The value returned, the local emg it was taken from, and the statics.
Emitted(v, g, emg) == [out |-> Returned(v, emg), emg |-> emg, g |-> g]

\* The rest of the call once the statics are updated.
Emit(v, g, tt, d) == Emitted(v, g, Computed(v, g, tt, d))

\* generate_emg_signal(t) of variant v, called with the cursor at index.
generate_emg_signal(v, g, index, tt, d) ==
    Emit(v, PhaseStep(BurstStep(g, index, d), d), tt, d)

\* ------------------------------------------------------------------------
\* Rendering helpers
\* ------------------------------------------------------------------------

\* a < b on floats: false when either is NaN.
FLess(a, b) == ~IsNaN(a) /\ ~IsNaN(b) /\ a < b

\* std::max(a, b)
FMax(a, b) == IF FLess(a, b) THEN b ELSE a

\* The scan of render_signals over slots i..n-1 of one channel, from acc;
\* the envelope channel is scanned without std::abs.
RECURSIVE MaxScan(_, _, _, _, _)
MaxScan(buf, i, n, acc, useAbs) ==
    IF i >= n THEN acc
    ELSE MaxScan(buf, i + 1, n, FMax(acc, IF useAbs THEN FAbs(buf[i]) ELSE buf[i]), useAbs)

DisplayRange(v) == IF v = "WAVE" THEN Dec(8, 10) ELSE Dec(5, 10)

\* A normalization that divides by the maximum whatever it is.
NormalizeUnguarded(v, value, max_amplitude) ==
    FMul(FDiv(value, max_amplitude), DisplayRange(v))

\* normalize_for_display(value, max_amplitude)
normalize_for_display(v, value, max_amplitude) ==
    IF max_amplitude = 0 THEN value
    ELSE FMul(FDiv(value, max_amplitude), DisplayRange(v))

\* A reader that starts one slot after the cursor.
DisplayFromNext(buf, index, n) == [i \in 0..(n - 1) |-> buf[(index + 1 + i) % n]]

\* A reader that ignores the cursor: element i is slot i.
DisplayFromZero(buf, index, n) == [i \in 0..(n - 1) |-> buf[i]]

\* A reader that walks back from the cursor: element 0 is the newest value.
DisplayNewestFirst(buf, index, n) == [i \in 0..(n - 1) |-> buf[(index + n - 1 - i) % n]]

\* The values render_signals reads from one channel, in drawing order:
\* element i is slot (buffer_index + i) % BUFFER_SIZE.
DisplayOrder(buf, index, n) == [i \in 0..(n - 1) |-> buf[(index + i) % n]]

\* The vertical offset of a channel's trace.
TraceOffset(v, ch) ==
    IF ch = "filtered" THEN 0
    ELSE LET d == IF v = "WAVE" THEN Dec(5, 10) ELSE Dec(75, 100)
         IN  IF ch = "raw" THEN d ELSE 0 - d

\* The y coordinates of one channel's line strip.
Trace(v, ch, shown, max_amplitude) ==
    [i \in DOMAIN shown |->
        FAdd(TraceOffset(v, ch), normalize_for_display(v, shown[i], max_amplitude))]

\* ------------------------------------------------------------------------
\* Key events
\* ------------------------------------------------------------------------

KeyEvents ==
    {<<"SPACE", "PRESS">>, <<"SPACE", "RELEASE">>, <<"UP", "PRESS">>,
     <<"UP", "RELEASE">>, <<"DOWN", "REPEAT">>, <<"DOWN", "PRESS">>}

\* Cutoff keys whose DOWN subtracts 0.5 without a floor.
CutoffKeysUnclamped(k, key, action) ==
    IF action = "PRESS" \/ action = "REPEAT"
    THEN IF key = "UP" THEN [k EXCEPT !.cutoff = FAdd(k.cutoff, Dec(5, 10))]
         ELSE IF key = "DOWN" THEN [k EXCEPT !.cutoff = FSub(k.cutoff, Dec(5, 10))]
              ELSE k
    ELSE k

\* Lines 53-64 of key_callback: the cutoff keys, on the record k.
CutoffKeys(k, key, action) ==
    IF action = "PRESS" \/ action = "REPEAT"
    THEN IF key = "UP" THEN [k EXCEPT !.cutoff = FAdd(k.cutoff, Dec(5, 10))]
         ELSE IF key = "DOWN"
              THEN [k EXCEPT !.cutoff = FMax(SCALE, FSub(k.cutoff, Dec(5, 10)))]
              ELSE k
    ELSE k

\* key_callback(window, key, scancode, action, mods) on the two globals it
\* writes, kept as the record k = [is_paused, cutoff].
key_callback(k, key, action) ==
    CutoffKeys(IF key = "SPACE" /\ action = "PRESS"
               THEN [k EXCEPT !.is_paused = ~k.is_paused] ELSE k,
               key, action)

\* glfwPollEvents: the callback runs once for every queued event, in order.
RECURSIVE Dispatch(_, _)
Dispatch(k, events) ==
    IF events = <<>> THEN k
    ELSE Dispatch(key_callback(k, Head(events)[1], Head(events)[2]), Tail(events))

\* ------------------------------------------------------------------------
\* State
\* ------------------------------------------------------------------------

VARIABLES
    variant,                    \* which demo program runs
    BUFFER_SIZE,                \* const int BUFFER_SIZE, fixed at start-up
    pc,                         \* position of main's loop
    raw_signal, filtered_signal, envelope_signal, buffer_index,
    generator,                  \* statics of generate_emg_signal
    t,                          \* float t of main
    is_paused, adjustable_highpass_cutoff, last_highpass_cutoff,
    highPassFilter, bandPassFilter, lowPassFilter,
    notch,                      \* x1_n, x2_n, y1_n, y2_n of Wave_Processing
    raw, highpassed, bandpass_filtered, notched, rectified, enveloped,
    pending,                    \* key events queued by the window system
    nkeys,                      \* key events delivered so far
    frame,                      \* what render_signals drew last
    pushed,                     \* history: every triple written, with its slot
    call                        \* the stand-alone filter / generator under test

buffers == <<raw_signal, filtered_signal, envelope_signal, buffer_index>>
filters == <<highPassFilter, bandPassFilter, lowPassFilter, notch>>
locals == <<raw, highpassed, bandpass_filtered, notched, rectified, enveloped>>
keys == <<is_paused, adjustable_highpass_cutoff, pending, nkeys>>
program == <<variant, BUFFER_SIZE, pc, buffers, generator, t, keys,
             last_highpass_cutoff, filters, locals, frame, pushed>>
vars == <<program, call>>

Slots == 0..(BUFFER_SIZE - 1)

\* The globals and the locals of main before the loop is entered, for the
\* capacity chosen.
InitGlobals ==
    /\ variant \in Variants
    /\ raw_signal = [i \in Slots |-> 0]
    /\ filtered_signal = [i \in Slots |-> 0]
    /\ envelope_signal = [i \in Slots |-> 0]
    /\ buffer_index = 0
    /\ generator = GenInit
    /\ t = 0
    /\ is_paused = FALSE
    /\ adjustable_highpass_cutoff = FromInt(5)
    /\ last_highpass_cutoff = adjustable_highpass_cutoff
    /\ highPassFilter = Filter("HighPass", SAMPLE_RATE,
                               IF variant = "EMG" THEN adjustable_highpass_cutoff
                               ELSE HIGHPASS_CUTOFF, 0, FromInt(1))
    /\ bandPassFilter = Filter("BandPass", SAMPLE_RATE, BANDPASS_LOW, BANDPASS_HIGH, FromInt(1))
    /\ lowPassFilter = Filter("LowPass", SAMPLE_RATE, LOWPASS_CUTOFF, 0, FromInt(1))
    /\ notch = ZeroDelay
    /\ raw = 0 /\ highpassed = 0 /\ bandpass_filtered = 0
    /\ notched = 0 /\ rectified = 0 /\ enveloped = 0
    /\ pending = <<>>
    /\ nkeys = 0
    /\ frame = [drawn |-> FALSE]
    /\ pushed = <<>>
    /\ pc = IF variant = "EMG" THEN "reinit" ELSE "generate"

InitProgram == BUFFER_SIZE \in 2..MaxBufferSize /\ InitGlobals

NoCall == [kind |-> "none"]

Init == InitProgram /\ call = NoCall

\* ------------------------------------------------------------------------
\* main's loop, one action per statement group
\* ------------------------------------------------------------------------

\* A loop that rebuilds the band-pass stage along with the high-pass stage.
ReinitAll ==
    /\ pc = "reinit"
    /\ IF adjustable_highpass_cutoff # last_highpass_cutoff
       THEN /\ highPassFilter' = Filter("HighPass", SAMPLE_RATE,
                                        adjustable_highpass_cutoff, 0, FromInt(1))
            /\ bandPassFilter' = Filter("BandPass", SAMPLE_RATE, BANDPASS_LOW,
                                        BANDPASS_HIGH, FromInt(1))
            /\ last_highpass_cutoff' = adjustable_highpass_cutoff
       ELSE UNCHANGED <<highPassFilter, bandPassFilter, last_highpass_cutoff>>
    /\ pc' = IF is_paused THEN "render" ELSE "generate"
    /\ UNCHANGED <<variant, BUFFER_SIZE, buffers, generator, t, keys,
                   lowPassFilter, notch, locals, frame, pushed, call>>

\* A loop that compares the cutoffs after the generator call instead of
\* before it.
ReinitLate ==
    \/ /\ pc = "reinit"
       /\ pc' = IF is_paused THEN "render" ELSE "generate"
       /\ UNCHANGED <<variant, BUFFER_SIZE, buffers, generator, t, keys,
                      last_highpass_cutoff, filters, locals, frame, pushed, call>>
    \/ /\ pc = "highpass"
       /\ adjustable_highpass_cutoff # last_highpass_cutoff
       /\ highPassFilter' = Filter("HighPass", SAMPLE_RATE,
                                   adjustable_highpass_cutoff, 0, FromInt(1))
       /\ last_highpass_cutoff' = adjustable_highpass_cutoff
       /\ UNCHANGED <<variant, BUFFER_SIZE, pc, buffers, generator, t, keys,
                      bandPassFilter, lowPassFilter, notch, locals, frame, pushed, call>>

\* A loop that compares the cutoffs only while it is not paused.
ReinitUnpausedOnly ==
    /\ pc = "reinit"
    /\ IF ~is_paused /\ adjustable_highpass_cutoff # last_highpass_cutoff
       THEN /\ highPassFilter' = Filter("HighPass", SAMPLE_RATE,
                                        adjustable_highpass_cutoff, 0, FromInt(1))
            /\ last_highpass_cutoff' = adjustable_highpass_cutoff
       ELSE UNCHANGED <<highPassFilter, last_highpass_cutoff>>
    /\ pc' = IF is_paused THEN "render" ELSE "generate"
    /\ UNCHANGED <<variant, BUFFER_SIZE, buffers, generator, t, keys, bandPassFilter,
                   lowPassFilter, notch, locals, frame, pushed, call>>

\* A loop that ticks whether paused or not.
ReinitIgnoringPause ==
    /\ pc = "reinit"
    /\ IF adjustable_highpass_cutoff # last_highpass_cutoff
       THEN /\ highPassFilter' = Filter("HighPass", SAMPLE_RATE,
                                        adjustable_highpass_cutoff, 0, FromInt(1))
            /\ last_highpass_cutoff' = adjustable_highpass_cutoff
       ELSE UNCHANGED <<highPassFilter, last_highpass_cutoff>>
    /\ pc' = "generate"
    /\ UNCHANGED <<variant, BUFFER_SIZE, buffers, generator, t, keys, bandPassFilter,
                   lowPassFilter, notch, locals, frame, pushed, call>>

\* EMGProcessingSimulation.cpp 279-287: rebuild the high-pass stage when the
\* cutoff changed, then test the pause flag.
ReinitHighPass ==
    /\ pc = "reinit"
    /\ IF adjustable_highpass_cutoff # last_highpass_cutoff
       THEN /\ highPassFilter' = Filter("HighPass", SAMPLE_RATE,
                                        adjustable_highpass_cutoff, 0, FromInt(1))
            /\ last_highpass_cutoff' = adjustable_highpass_cutoff
       ELSE UNCHANGED <<highPassFilter, last_highpass_cutoff>>
    /\ pc' = IF is_paused THEN "render" ELSE "generate"
    /\ UNCHANGED <<variant, BUFFER_SIZE, buffers, generator, t, keys, bandPassFilter,
                   lowPassFilter, notch, locals, frame, pushed, call>>

\* float raw = generate_emg_signal(t);
Generate ==
    /\ pc = "generate"
    /\ Len(pushed) < MaxTicks
    /\ \E d \in Draws :
         \E r \in {generate_emg_signal(variant, generator, buffer_index, t, d)} :
            raw' = r.out /\ generator' = r.g
    /\ pc' = "highpass"
    /\ UNCHANGED <<variant, BUFFER_SIZE, buffers, t, keys, last_highpass_cutoff, filters,
                   highpassed, bandpass_filtered, notched, rectified, enveloped,
                   frame, pushed, call>>

\* A high-pass stage whose delay line is also the band-pass stage's.
HighPassShared ==
    /\ pc = "highpass"
    /\ \E r \in {IF variant = "WAVE" THEN highpass_filter(raw, highPassFilter)
                 ELSE process(highPassFilter, raw)} :
          /\ highpassed' = r.out
          /\ highPassFilter' = r.f
          /\ bandPassFilter' = WithDelay(bandPassFilter, r.f)
    /\ pc' = "bandpass"
    /\ UNCHANGED <<variant, BUFFER_SIZE, buffers, generator, t, keys, last_highpass_cutoff,
                   lowPassFilter, notch, raw, bandpass_filtered, notched,
                   rectified, enveloped, frame, pushed, call>>

\* float highpassed = highPassFilter.process(raw);
HighPass ==
    /\ pc = "highpass"
    /\ \E r \in {IF variant = "WAVE" THEN highpass_filter(raw, highPassFilter)
                 ELSE process(highPassFilter, raw)} :
          highpassed' = r.out /\ highPassFilter' = r.f
    /\ pc' = "bandpass"
    /\ UNCHANGED <<variant, BUFFER_SIZE, buffers, generator, t, keys, last_highpass_cutoff,
                   bandPassFilter, lowPassFilter, notch, raw, bandpass_filtered, notched,
                   rectified, enveloped, frame, pushed, call>>

\* float bandpass_filtered = bandPassFilter.process(highpassed);
BandPass ==
    /\ pc = "bandpass"
    /\ \E r \in {IF variant = "WAVE" THEN bandpass_filter(highpassed, bandPassFilter)
                 ELSE process(bandPassFilter, highpassed)} :
          bandpass_filtered' = r.out /\ bandPassFilter' = r.f
    /\ pc' = IF variant = "WAVE" THEN "notch" ELSE "rectify"
    /\ UNCHANGED <<variant, BUFFER_SIZE, buffers, generator, t, keys, last_highpass_cutoff,
                   highPassFilter, lowPassFilter, notch, raw, highpassed, notched,
                   rectified, enveloped, frame, pushed, call>>

\* Wave_Processing.cpp 329: float notched = notch_filter(bandpass_filtered, ...);
Notch ==
    /\ pc = "notch"
    /\ \E r \in {notch_filter(bandpass_filtered, notch)} :
          notched' = r.out /\ notch' = r.f
    /\ pc' = "rectify"
    /\ UNCHANGED <<variant, BUFFER_SIZE, buffers, generator, t, keys, last_highpass_cutoff,
                   highPassFilter, bandPassFilter, lowPassFilter, raw, highpassed,
                   bandpass_filtered, rectified, enveloped, frame, pushed, call>>

\* The band-pass output, whatever follows it.
BandPassOutput == bandpass_filtered

\* The output of the last stage before rectification.
Filtered == IF variant = "WAVE" THEN notched ELSE bandpass_filtered

\* float rectified = rectify(...);
Rectify ==
    /\ pc = "rectify"
    /\ rectified' = rectify(Filtered)
    /\ pc' = "lowpass"
    /\ UNCHANGED <<variant, BUFFER_SIZE, buffers, generator, t, keys, last_highpass_cutoff,
                   filters, raw, highpassed, bandpass_filtered, notched, enveloped,
                   frame, pushed, call>>

\* float enveloped = lowPassFilter.process(rectified);
LowPass ==
    /\ pc = "lowpass"
    /\ \E r \in {IF variant = "WAVE" THEN lowpass_filter(rectified, lowPassFilter)
                 ELSE process(lowPassFilter, rectified)} :
          enveloped' = r.out /\ lowPassFilter' = r.f
    /\ pc' = "write"
    /\ UNCHANGED <<variant, BUFFER_SIZE, buffers, generator, t, keys, last_highpass_cutoff,
                   highPassFilter, bandPassFilter, notch, raw, highpassed,
                   bandpass_filtered, notched, rectified, frame, pushed, call>>

\* A tick that stores the envelope one slot ahead of the other two values.
WriteSkewed ==
    /\ pc = "write"
    /\ raw_signal' = [raw_signal EXCEPT ![buffer_index] = raw]
    /\ filtered_signal' = [filtered_signal EXCEPT ![buffer_index] = Filtered]
    /\ envelope_signal' =
         [envelope_signal EXCEPT ![(buffer_index + 1) % BUFFER_SIZE] = enveloped]
    /\ buffer_index' = (buffer_index + 1) % BUFFER_SIZE
    /\ t' = FAdd(t, TIME_STEP)
    /\ pushed' = Append(pushed, [slot |-> buffer_index, raw |-> raw,
                                 filtered |-> Filtered, envelope |-> enveloped])
    /\ pc' = "render"
    /\ UNCHANGED <<variant, BUFFER_SIZE, generator, keys, last_highpass_cutoff, filters,
                   locals, frame, call>>

\* A tick that also clears the slot after the cursor.
WriteClearing ==
    /\ pc = "write"
    /\ raw_signal' = [raw_signal EXCEPT ![buffer_index] = raw,
                                        ![(buffer_index + 1) % BUFFER_SIZE] = 0]
    /\ filtered_signal' = [filtered_signal EXCEPT ![buffer_index] = Filtered]
    /\ envelope_signal' = [envelope_signal EXCEPT ![buffer_index] = enveloped]
    /\ buffer_index' = (buffer_index + 1) % BUFFER_SIZE
    /\ t' = FAdd(t, TIME_STEP)
    /\ pushed' = Append(pushed, [slot |-> buffer_index, raw |-> raw,
                                 filtered |-> Filtered, envelope |-> enveloped])
    /\ pc' = "render"
    /\ UNCHANGED <<variant, BUFFER_SIZE, generator, keys, last_highpass_cutoff, filters,
                   locals, frame, call>>

\* The three stores at the cursor, the cursor's advance and t += TIME_STEP.
Write ==
    /\ pc = "write"
    /\ raw_signal' = [raw_signal EXCEPT ![buffer_index] = raw]
    /\ filtered_signal' = [filtered_signal EXCEPT ![buffer_index] = Filtered]
    /\ envelope_signal' = [envelope_signal EXCEPT ![buffer_index] = enveloped]
    /\ buffer_index' = (buffer_index + 1) % BUFFER_SIZE
    /\ t' = FAdd(t, TIME_STEP)
    /\ pushed' = Append(pushed, [slot |-> buffer_index, raw |-> raw,
                                 filtered |-> Filtered, envelope |-> enveloped])
    /\ pc' = "render"
    /\ UNCHANGED <<variant, BUFFER_SIZE, generator, keys, last_highpass_cutoff, filters,
                   locals, frame, call>>

\* One channel as render_signals draws it: its maximum, the values in
\* drawing order and the y coordinates of the line strip.
Channel(v, ch, max_amplitude, shown) ==
    [max |-> max_amplitude, shown |-> shown, y |-> Trace(v, ch, shown, max_amplitude)]

\* render_signals(): the three maxima, then each channel read in drawing
\* order and normalized.
render_signals ==
    [drawn |-> TRUE,
     raw |-> Channel(variant, "raw", MaxScan(raw_signal, 0, BUFFER_SIZE, 0, TRUE),
                     DisplayOrder(raw_signal, buffer_index, BUFFER_SIZE)),
     filtered |-> Channel(variant, "filtered",
                          MaxScan(filtered_signal, 0, BUFFER_SIZE, 0, TRUE),
                          DisplayOrder(filtered_signal, buffer_index, BUFFER_SIZE)),
     envelope |-> Channel(variant, "envelope",
                          MaxScan(envelope_signal, 0, BUFFER_SIZE, 0, FALSE),
                          DisplayOrder(envelope_signal, buffer_index, BUFFER_SIZE))]

Render ==
    /\ pc = "render"
    /\ frame' = render_signals
    /\ pc' = "poll"
    /\ UNCHANGED <<variant, BUFFER_SIZE, buffers, generator, t, keys, last_highpass_cutoff,
                   filters, locals, pushed, call>>

\* glfwPollEvents(): the queued key events reach key_callback here and
\* nowhere else; then the loop starts over.
PollEvents ==
    /\ pc = "poll"
    /\ \E k \in {Dispatch([is_paused |-> is_paused, cutoff |-> adjustable_highpass_cutoff],
                          pending)} :
          /\ is_paused' = k.is_paused
          /\ adjustable_highpass_cutoff' = k.cutoff
    /\ pending' = <<>>
    /\ pc' = IF variant = "EMG" THEN "reinit" ELSE "generate"
    /\ UNCHANGED <<variant, BUFFER_SIZE, buffers, generator, t, nkeys, last_highpass_cutoff,
                   filters, locals, frame, pushed, call>>

\* The window system queues a key event at any moment.  Only
\* EMGProcessingSimulation.cpp registers a key callback.
KeyEvent ==
    /\ variant = "EMG"
    /\ nkeys < MaxKeys
    /\ \E ev \in KeyEvents : pending' = Append(pending, ev)
    /\ nkeys' = nkeys + 1
    /\ UNCHANGED <<variant, BUFFER_SIZE, pc, buffers, generator, t, is_paused,
                   adjustable_highpass_cutoff, last_highpass_cutoff, filters, locals,
                   frame, pushed, call>>

Next ==
    \/ ReinitHighPass
    \/ Generate
    \/ HighPass
    \/ BandPass
    \/ Notch
    \/ Rectify
    \/ LowPass
    \/ Write
    \/ Render
    \/ PollEvents
    \/ KeyEvent

Spec == Init /\ [][Next]_vars

\* ------------------------------------------------------------------------
\* The cascade on given raw samples
\* ------------------------------------------------------------------------

\* Raw samples fed to the cascade in place of the generator's: silence and
\* two samples large enough for the envelope to show at this resolution.
RawInputs == {0, FromInt(1000), FromInt(0 - 1000)}

\* float raw = ...; with the sample given.
FeedRaw ==
    /\ pc = "generate"
    /\ Len(pushed) < MaxTicks
    /\ \E x \in RawInputs : raw' = x
    /\ pc' = "highpass"
    /\ UNCHANGED <<variant, BUFFER_SIZE, buffers, generator, t, keys, last_highpass_cutoff,
                   filters, highpassed, bandpass_filtered, notched, rectified, enveloped,
                   frame, pushed, call>>

NextCascade ==
    \/ ReinitHighPass
    \/ FeedRaw
    \/ HighPass
    \/ BandPass
    \/ Notch
    \/ Rectify
    \/ LowPass
    \/ Write
    \/ Render
    \/ PollEvents

SpecCascade == Init /\ [][NextCascade]_vars

\* ------------------------------------------------------------------------
\* class Filter on its own
\* ------------------------------------------------------------------------

\* Constructor arguments: the three filters the programs build, and
\* configurations with a positive sample rate, freq2 > freq1 for the band-pass
\* and a positive q.
FilterConfigs ==
    {[type |-> "HighPass", sample_rate |-> SAMPLE_RATE, freq1 |-> HIGHPASS_CUTOFF,
      freq2 |-> 0, q |-> FromInt(1)],
     [type |-> "BandPass", sample_rate |-> SAMPLE_RATE, freq1 |-> BANDPASS_LOW,
      freq2 |-> BANDPASS_HIGH, q |-> FromInt(1)],
     [type |-> "LowPass", sample_rate |-> SAMPLE_RATE, freq1 |-> LOWPASS_CUTOFF,
      freq2 |-> 0, q |-> FromInt(1)],
     [type |-> "HighPass", sample_rate |-> FromInt(4), freq1 |-> FromInt(3),
      freq2 |-> 0, q |-> Dec(5, 10)],
     [type |-> "BandPass", sample_rate |-> FromInt(4), freq1 |-> FromInt(1),
      freq2 |-> FromInt(2), q |-> FromInt(1)],
     [type |-> "LowPass", sample_rate |-> FromInt(4), freq1 |-> FromInt(3),
      freq2 |-> 0, q |-> Dec(5, 10)],
     \* a sample rate of 0, band edges that coincide or are the wrong way
     \* round, a q of 0
     [type |-> "HighPass", sample_rate |-> 0, freq1 |-> HIGHPASS_CUTOFF,
      freq2 |-> 0, q |-> FromInt(1)],
     [type |-> "BandPass", sample_rate |-> SAMPLE_RATE, freq1 |-> BANDPASS_LOW,
      freq2 |-> BANDPASS_LOW, q |-> FromInt(1)],
     [type |-> "BandPass", sample_rate |-> SAMPLE_RATE, freq1 |-> BANDPASS_HIGH,
      freq2 |-> BANDPASS_LOW, q |-> FromInt(1)],
     [type |-> "LowPass", sample_rate |-> SAMPLE_RATE, freq1 |-> LOWPASS_CUTOFF,
      freq2 |-> 0, q |-> 0],
     \* a FilterType that is none of the three enumerators
     [type |-> "Other", sample_rate |-> SAMPLE_RATE, freq1 |-> HIGHPASS_CUTOFF,
      freq2 |-> 0, q |-> FromInt(1)]}

FilterInputs == {0, FromInt(1), FromInt(0 - 1)}

\* Whether Filter::Filter leaves by an exception instead of returning: its
\* body has no throw statement and calls nothing that throws.
ConstructorThrows(type, sample_rate, freq1, freq2, q) == FALSE

\* Filter f(type, sample_rate, freq1, freq2, q); no process call made yet.
InitFilter ==
    /\ InitProgram
    /\ variant = "P000"
    /\ BUFFER_SIZE = 2
    /\ \E c \in FilterConfigs :
         call = [kind |-> "filter", config |-> c,
                 thrown |-> ConstructorThrows(c.type, c.sample_rate, c.freq1, c.freq2, c.q),
                 f |-> Filter(c.type, c.sample_rate, c.freq1, c.freq2, c.q),
                 inputs |-> <<>>, outputs |-> <<>>]

\* f.process(input)
Process ==
    /\ call.kind = "filter"
    /\ ~call.thrown
    /\ Len(call.inputs) < MaxCalls
    /\ \E input \in FilterInputs :
         \E r \in {process(call.f, input)} :
            call' = [call EXCEPT !.f = r.f, !.inputs = Append(@, input),
                                 !.outputs = Append(@, r.out)]
    /\ UNCHANGED program

NextFilter == Process

SpecFilter == InitFilter /\ [][NextFilter]_vars

\* ------------------------------------------------------------------------
\* generate_emg_signal on its own
\* ------------------------------------------------------------------------

\* Arguments of generate_emg_signal(float t): times main passes, and the
\* floats that are not finite.
GenTimes == {0, TIME_STEP, FromInt(1), PInf, NaN}

\* Values of buffer_index at a call: one on which the burst trial is made
\* and one on which it is not.
GenIndexes == {0, 1}

InitGen ==
    /\ InitProgram
    /\ BUFFER_SIZE = 2
    /\ call = [kind |-> "generator", g |-> GenInit, n |-> 0, t |-> 0,
               computed |-> 0, out |-> 0]

\* One call of generate_emg_signal(t) of the variant.
CallGenerator ==
    /\ call.kind = "generator"
    /\ call.n < MaxCalls
    /\ \E tt \in GenTimes, index \in GenIndexes, d \in Draws :
         \E r \in {generate_emg_signal(variant, call.g, index, tt, d)} :
            call' = [kind |-> "generator", g |-> r.g, n |-> call.n + 1, t |-> tt,
                     computed |-> r.emg, out |-> r.out]
    /\ UNCHANGED program

NextGen == CallGenerator

SpecGen == InitGen /\ [][NextGen]_vars

\* ------------------------------------------------------------------------
\* notch_filter beside a Filter of the same coefficients
\* ------------------------------------------------------------------------

NotchInputs == {0, FromInt(1), FromInt(0 - 1), FromInt(1000)}

\* The notch stage of Wave_Processing.cpp with its four delays at 0.0f, and
\* beside it a biquad that holds the notch coefficients divided by a0 as the
\* Filter constructor would leave them.
InitNotch ==
    /\ InitProgram
    /\ variant = "WAVE"
    /\ call = [kind |-> "notch", f |-> ZeroDelay, normalized |-> Normalized(NotchCoefficients),
               inputs |-> <<>>, outputs |-> <<>>, reference |-> <<>>]

\* notch_filter(input, x1, x2, y1, y2) and Filter::process(input) on the same
\* input.
NotchBoth ==
    /\ call.kind = "notch"
    /\ Len(call.inputs) < MaxCalls
    /\ \E input \in NotchInputs :
         \E r \in {notch_filter(input, call.f)}, s \in {process(call.normalized, input)} :
            call' = [call EXCEPT !.f = r.f, !.normalized = s.f,
                                 !.inputs = Append(@, input),
                                 !.outputs = Append(@, r.out),
                                 !.reference = Append(@, s.out)]
    /\ UNCHANGED program

NextNotch == NotchBoth

SpecNotch == InitNotch /\ [][NextNotch]_vars

\* ------------------------------------------------------------------------
\* The envelope detector on its own: rectify, then the low-pass stage
\* ------------------------------------------------------------------------

\* Filtered samples fed to the detector.
EnvelopeInputs == {0, FromInt(1000), FromInt(0 - 1000)}

\* Filter lowPassFilter(FilterType::LowPass, SAMPLE_RATE, LOWPASS_CUTOFF) as
\* main builds it; nothing processed yet.
InitEnvelope ==
    /\ InitProgram
    /\ variant = "EMG"
    /\ call = [kind |-> "envelope", f |-> lowPassFilter, n |-> 0, filtered |-> 0,
               rectified |-> 0, enveloped |-> 0]

\* rectified = rectify(filtered); enveloped = lowPassFilter.process(rectified)
\* on the filtered sample x.
Detected(c, x, r) ==
    [c EXCEPT !.f = r.f, !.n = @ + 1, !.filtered = x, !.rectified = rectify(x),
              !.enveloped = r.out]

\* One tick of the detector: the signal may do anything for the first
\* MaxCalls samples and is silent afterwards.
Envelope ==
    /\ call.kind = "envelope"
    /\ call.n < MaxEnvelopeTicks
    /\ \E x \in IF call.n < MaxCalls THEN EnvelopeInputs ELSE {0} :
         \E r \in {process(call.f, rectify(x))} : call' = Detected(call, x, r)
    /\ UNCHANGED program

NextEnvelope == Envelope

SpecEnvelope == InitEnvelope /\ [][NextEnvelope]_vars

\* ------------------------------------------------------------------------
\* EMGProcessingSimulation.cpp under many key events
\* ------------------------------------------------------------------------

InitKeys == Init /\ variant = "EMG"

\* float raw = ...; with a silent signal, so that a run is told apart by its
\* keys and not by its samples.
FeedSilence ==
    /\ pc = "generate"
    /\ Len(pushed) < MaxTicks
    /\ raw' = 0
    /\ pc' = "highpass"
    /\ UNCHANGED <<variant, BUFFER_SIZE, buffers, generator, t, keys, last_highpass_cutoff,
                   filters, highpassed, bandpass_filtered, notched, rectified, enveloped,
                   frame, pushed, call>>

\* A key event reaches the queue that the pending glfwPollEvents call will
\* dispatch.  An event that arrives earlier in the iteration waits in the same
\* queue until that call, so nothing is lost by letting it arrive here.
KeyAtPoll ==
    /\ pc = "poll"
    /\ nkeys < MaxKeyPresses
    /\ Len(pending) < MaxPending
    /\ \E ev \in KeyEvents : pending' = Append(pending, ev)
    /\ nkeys' = nkeys + 1
    /\ UNCHANGED <<variant, BUFFER_SIZE, pc, buffers, generator, t, is_paused,
                   adjustable_highpass_cutoff, last_highpass_cutoff, filters, locals,
                   frame, pushed, call>>

NextKeys ==
    \/ ReinitHighPass
    \/ FeedSilence
    \/ HighPass
    \/ BandPass
    \/ Rectify
    \/ LowPass
    \/ Write
    \/ Render
    \/ PollEvents
    \/ KeyAtPoll

SpecKeys == InitKeys /\ [][NextKeys]_vars

\* ------------------------------------------------------------------------
\* The generator behind the ring cursor
\* ------------------------------------------------------------------------

\* Draws that differ in the burst trial only: a failed trial, and two
\* successful ones with different multipliers.
BurstDraws ==
    {DrawLow,
     [DrawLow EXCEPT !.burst = Dec(1, 10), !.scale = FromInt(2)],
     [DrawLow EXCEPT !.burst = Dec(1, 10), !.scale = Dec(15, 10)]}

\* The ring at the capacity the programs give it, and the history of the
\* generator's calls: n samples generated; whether the last call made the
\* trial and whether it succeeded; armed, the countdown between the trial
\* block and the decrement of the last call; run, the samples generated since
\* the last activation, the activating one included (0 before the first
\* activation, 101 for anything past 100); scale, the multiplier drawn then.
InitBurst ==
    /\ BUFFER_SIZE = 1000
    /\ InitGlobals
    /\ call = [kind |-> "burst", n |-> 0, trial |-> FALSE, hit |-> FALSE, armed |-> 0,
               run |-> 0, scale |-> 0, pauses |-> 0]

\* The history after a call that found the statics g and the cursor index.
Called(c, g, index, d) ==
    [c EXCEPT !.n = @ + 1,
              !.trial = BurstTrial(index),
              !.hit = BurstHit(index, d),
              !.armed = BurstDecision(g, index, d).burst_duration,
              !.run = IF BurstHit(index, d) THEN 1
                      ELSE IF @ = 0 THEN 0
                      ELSE IF @ >= 100 THEN 101 ELSE @ + 1,
              !.scale = IF BurstHit(index, d) THEN d.scale ELSE @]

\* One iteration's tick as the generator sees it: the call, the cursor's
\* advance and t += TIME_STEP, skipped while paused.  The filter stages and the
\* three stores in between touch neither the cursor nor the generator.
BurstTick ==
    /\ call.kind = "burst"
    /\ ~is_paused
    /\ call.n < MaxSamples
    /\ \E d \in BurstDraws :
         /\ \E r \in {generate_emg_signal(variant, generator, buffer_index, t, d)} :
               raw' = r.out /\ generator' = r.g
         /\ call' = Called(call, generator, buffer_index, d)
    /\ buffer_index' = (buffer_index + 1) % BUFFER_SIZE
    /\ t' = FAdd(t, TIME_STEP)
    /\ UNCHANGED <<variant, BUFFER_SIZE, pc, raw_signal, filtered_signal, envelope_signal,
                   keys, last_highpass_cutoff, filters, highpassed, bandpass_filtered,
                   notched, rectified, enveloped, frame, pushed>>

\* glfwPollEvents delivers a press of the space bar between two ticks.
PauseKey ==
    /\ call.kind = "burst"
    /\ variant = "EMG"
    /\ call.pauses < MaxPauses
    /\ \E k \in {key_callback([is_paused |-> is_paused,
                                cutoff |-> adjustable_highpass_cutoff], "SPACE", "PRESS")} :
          /\ is_paused' = k.is_paused
          /\ adjustable_highpass_cutoff' = k.cutoff
    /\ call' = [call EXCEPT !.pauses = @ + 1]
    /\ UNCHANGED <<variant, BUFFER_SIZE, pc, buffers, generator, t, pending, nkeys,
                   last_highpass_cutoff, filters, locals, frame, pushed>>

NextBurst ==
    \/ BurstTick
    \/ PauseKey

SpecBurst == InitBurst /\ [][NextBurst]_vars

\* ------------------------------------------------------------------------
\* PhysiologicalSignalProcessor.java
\* ------------------------------------------------------------------------
\* The processor is the record call: isRunning, acquisitionThread (0 for null,
\* else the index of a thread in threads), dataBuffer, the owner of
\* dataBuffer's monitor (0 when free, else the index of an acquisition thread),
\* the acquisition threads created so far, the client threads, and a clock that
\* counts the samples taken.  quiet records that a stopAcquisition call has
\* returned normally and no startAcquisition call was made since.

\* if (dataBuffer.size() > 100)
Capacity == 100

WindowSizes == {2, 10}
EmgDraws == {0, 1}

\* new SensorData(time, emg, heartRate): emgFiltered starts as emg.  The
\* filtered value is kept in units of 1/windowSize, so that sum / windowSize
\* is exact; heartRate is written once and never read by the processor.
SensorData(time, emg, windowSize) ==
    [time |-> time, emg |-> emg, emgFiltered |-> emg * windowSize]

\* sum of getEmg() over the entries lo..hi (indices from 1).
RECURSIVE WindowSum(_, _, _)
WindowSum(buf, lo, hi) ==
    IF lo > hi THEN 0 ELSE buf[hi].emg + WindowSum(buf, lo, hi - 1)

\* applyMovingAverageFilter(): the last windowSize entries that have
\* windowSize - 1 entries before them get the average of their window.
applyMovingAverageFilter(buf, windowSize) ==
    [i \in 1..Len(buf) |->
        IF i - 1 >= Len(buf) - windowSize /\ i - 1 >= windowSize - 1
        THEN [buf[i] EXCEPT !.emgFiltered = WindowSum(buf, i - windowSize + 1, i)]
        ELSE buf[i]]

\* The processor after construction, with one or two client threads.
InitJava ==
    /\ BUFFER_SIZE = MaxBufferSize
    /\ InitGlobals
    /\ variant = "EMG"
    /\ \E windowSize \in WindowSizes : \E clients \in {1, 2} :
          call = [kind |-> "java",
                  windowSize |-> windowSize,
                  isRunning |-> FALSE,
                  acquisitionThread |-> 0,
                  dataBuffer |-> <<>>,
                  lock |-> 0,
                  threads |-> <<>>,
                  callers |-> [c \in 1..clients |->
                                 [pc |-> "idle", ops |-> 0, target |-> 0,
                                  returned |-> <<>>, outcome |-> "none"]],
                  clock |-> 0,
                  budget |-> IF clients = 1 THEN MaxAcquired ELSE MaxRacing,
                  quiet |-> FALSE]

\* One step of client c inside startAcquisition(): the compareAndSet, the
\* assignment of the new Thread, the start() of whatever thread the field
\* then names (a second start() of one Thread throws).
startAcquisition(j, c) ==
    CASE j.callers[c].pc = "idle" ->
           IF ~j.isRunning
           THEN [j EXCEPT !.isRunning = TRUE, !.quiet = FALSE,
                          !.callers[c].pc = "assign", !.callers[c].ops = @ + 1,
                          !.callers[c].outcome = "none"]
           ELSE [j EXCEPT !.quiet = FALSE, !.callers[c].ops = @ + 1,
                          !.callers[c].outcome = "returned"]
      [] j.callers[c].pc = "assign" ->
           [j EXCEPT !.threads = Append(@, [pc |-> "new", data |-> SensorData(0, 0, 1)]),
                     !.acquisitionThread = Len(j.threads) + 1,
                     !.callers[c].pc = "launch"]
      [] j.callers[c].pc = "launch" ->
           IF j.threads[j.acquisitionThread].pc = "new"
           THEN [j EXCEPT !.threads[j.acquisitionThread].pc = "test",
                          !.callers[c].pc = "idle", !.callers[c].outcome = "returned"]
           ELSE [j EXCEPT !.callers[c].pc = "idle", !.callers[c].outcome = "thrown"]

StartAcquisition ==
    /\ call.kind = "java"
    /\ \E c \in DOMAIN call.callers :
          /\ \/ call.callers[c].pc = "idle" /\ call.callers[c].ops < MaxOps
             \/ call.callers[c].pc \in {"assign", "launch"}
          /\ call' = startAcquisition(call, c)
    /\ UNCHANGED program

\* One step of client c inside stopAcquisition(): the compareAndSet, the
\* null test, the second read of the field, and the return from join(),
\* which waits while the thread is alive.
stopAcquisition(j, c) ==
    CASE j.callers[c].pc = "idle" ->
           IF j.isRunning
           THEN [j EXCEPT !.isRunning = FALSE, !.callers[c].pc = "check",
                          !.callers[c].ops = @ + 1, !.callers[c].outcome = "none"]
           ELSE [j EXCEPT !.quiet = TRUE, !.callers[c].ops = @ + 1,
                          !.callers[c].outcome = "returned"]
      [] j.callers[c].pc = "check" ->
           IF j.acquisitionThread = 0
           THEN [j EXCEPT !.quiet = TRUE, !.callers[c].pc = "idle",
                          !.callers[c].outcome = "returned"]
           ELSE [j EXCEPT !.callers[c].pc = "read"]
      [] j.callers[c].pc = "read" ->
           [j EXCEPT !.callers[c].target = j.acquisitionThread, !.callers[c].pc = "join"]
      [] j.callers[c].pc = "join" ->
           [j EXCEPT !.quiet = TRUE, !.callers[c].pc = "idle", !.callers[c].target = 0,
                     !.callers[c].outcome = "returned"]

StopAcquisition ==
    /\ call.kind = "java"
    /\ \E c \in DOMAIN call.callers :
          /\ \/ call.callers[c].pc = "idle" /\ call.callers[c].ops < MaxOps
             \/ call.callers[c].pc \in {"check", "read"}
             \/ /\ call.callers[c].pc = "join"
                /\ call.threads[call.callers[c].target].pc \in {"new", "done"}
          /\ call' = stopAcquisition(call, c)
    /\ UNCHANGED program

\* catch (InterruptedException e) in stopAcquisition(): the client is
\* interrupted while it waits in join().
InterruptJoin ==
    /\ call.kind = "java"
    /\ \E c \in DOMAIN call.callers :
          /\ call.callers[c].pc = "join"
          /\ call' = [call EXCEPT !.callers[c].pc = "idle", !.callers[c].target = 0,
                                  !.callers[c].outcome = "interrupted"]
    /\ UNCHANGED program

\* getData(): the copy made under dataBuffer's monitor, and the client
\* dropping the list it got.
getData(j, c) ==
    IF j.callers[c].pc = "idle"
    THEN [j EXCEPT !.callers[c].pc = "got", !.callers[c].returned = j.dataBuffer,
                   !.callers[c].ops = @ + 1, !.callers[c].outcome = "returned"]
    ELSE [j EXCEPT !.callers[c].pc = "idle", !.callers[c].returned = <<>>]

GetData ==
    /\ call.kind = "java"
    /\ \E c \in DOMAIN call.callers :
          /\ \/ /\ call.callers[c].pc = "idle"
                /\ call.callers[c].ops < MaxOps
                /\ call.lock = 0
             \/ call.callers[c].pc = "got"
          /\ call' = getData(call, c)
    /\ UNCHANGED program

\* One step of acquisition thread i, the lambda of startAcquisition(): the
\* loop test, simulateSensorData() with the drawn EMG value, the entry into
\* synchronized (dataBuffer), add and applyMovingAverageFilter, the removal
\* of entry 0 above 100 entries with the exit from the block, and the sleep.
\* Nothing in the class interrupts an acquisition thread.
run(j, i, emg) ==
    CASE j.threads[i].pc = "test" ->
           [j EXCEPT !.threads[i].pc = IF j.isRunning THEN "simulate" ELSE "done"]
      [] j.threads[i].pc = "simulate" ->
           [j EXCEPT !.threads[i] = [pc |-> "enter",
                                     data |-> SensorData(j.clock + 1, emg, j.windowSize)],
                     !.clock = @ + 1]
      [] j.threads[i].pc = "enter" ->
           [j EXCEPT !.lock = i, !.threads[i].pc = "add"]
      [] j.threads[i].pc = "add" ->
           [j EXCEPT !.dataBuffer = applyMovingAverageFilter(Append(@, j.threads[i].data),
                                                             j.windowSize),
                     !.threads[i].pc = "evict"]
      [] j.threads[i].pc = "evict" ->
           [j EXCEPT !.dataBuffer = IF Len(@) > Capacity THEN Tail(@) ELSE @,
                     !.lock = 0,
                     !.threads[i].pc = "sleep"]
      [] j.threads[i].pc = "sleep" ->
           [j EXCEPT !.threads[i].pc = "test"]

Acquire ==
    /\ call.kind = "java"
    /\ \E i \in DOMAIN call.threads :
          /\ call.threads[i].pc \notin {"new", "done"}
          /\ call.threads[i].pc = "simulate" => call.clock < call.budget
          /\ call.threads[i].pc = "enter" => call.lock = 0
          /\ \E emg \in IF call.threads[i].pc = "simulate" /\ call.clock < MaxNoisy
                          THEN EmgDraws ELSE {0} :
                call' = run(call, i, emg)
    /\ UNCHANGED program

NextJava ==
    \/ StartAcquisition
    \/ StopAcquisition
    \/ InterruptJoin
    \/ GetData
    \/ Acquire

SpecJava == InitJava /\ [][NextJava]_vars

\* ------------------------------------------------------------------------
\* Properties
\* ------------------------------------------------------------------------

\* The triple pushed age ticks before the newest one (age 0).
Aged(age) == pushed[Len(pushed) - age]

\* What the three channels hold in slot s.
Stored(s) == [raw |-> raw_signal[s], filtered |-> filtered_signal[s],
              envelope |-> envelope_signal[s]]

\* What render_signals reads from the three channels at offset i.
ReadAt(i) ==
    [raw |-> DisplayOrder(raw_signal, buffer_index, BUFFER_SIZE)[i],
     filtered |-> DisplayOrder(filtered_signal, buffer_index, BUFFER_SIZE)[i],
     envelope |-> DisplayOrder(envelope_signal, buffer_index, BUFFER_SIZE)[i]]

\* One of the history's triples without its slot.
Values(p) == [raw |-> p.raw, filtered |-> p.filtered, envelope |-> p.envelope]

DelayLine(f) == <<f.x1, f.x2, f.y1, f.y2>>
Coefficients(f) == <<f.b0, f.b1, f.b2, f.a0, f.a1, f.a2>>

\* The step of main's loop that writes the ring buffers.
Tick == pc = "write" /\ pc' = "render"

\* C1: after more than BUFFER_SIZE ticks, what render_signals drew of each
\* channel, read at slot (cursor + i) mod N for i = 0..N-1, is exactly the
\* last N pushed values, oldest first and newest last, and every slot holds
\* one of those N values.
C1_DisplayOrderIsLastN ==
    (pc = "poll" /\ Len(pushed) > BUFFER_SIZE) =>
        /\ \A i \in Slots :
              /\ frame.raw.shown[i] = Aged(BUFFER_SIZE - 1 - i).raw
              /\ frame.filtered.shown[i] = Aged(BUFFER_SIZE - 1 - i).filtered
              /\ frame.envelope.shown[i] = Aged(BUFFER_SIZE - 1 - i).envelope
        /\ \A s \in Slots : \E age \in 0..(BUFFER_SIZE - 1) : Stored(s) = Values(Aged(age))

\* C1 happens: a frame drawn after a wrap, with the wrap point inside the
\* buffer and with values that differ along the trace.
C1_Witness ==
    /\ pc = "poll"
    /\ Len(pushed) > BUFFER_SIZE
    /\ buffer_index # 0
    /\ frame.raw.shown[0] # frame.raw.shown[BUFFER_SIZE - 1]
    /\ frame.envelope.shown[BUFFER_SIZE - 1] # 0

\* The configurations the specification calls valid: a positive sample rate,
\* freq2 > freq1 for a band-pass, a positive Q.
ValidConfig(c) ==
    /\ IsFinite(c.sample_rate) /\ c.sample_rate > 0
    /\ c.type = "BandPass" => (IsFinite(c.freq1) /\ IsFinite(c.freq2) /\ c.freq2 > c.freq1)
    /\ IsFinite(c.q) /\ c.q > 0

\* C2: for every filter kind and every valid configuration, a freshly
\* constructed filter fed only zeros returns 0 from every process call and its
\* delay line stays all zero.
C2_ZeroIsFixedPoint ==
    (/\ call.kind = "filter"
     /\ ValidConfig(call.config)
     /\ \A i \in DOMAIN call.inputs : call.inputs[i] = 0) =>
        /\ \A i \in DOMAIN call.outputs : call.outputs[i] = 0
        /\ DelayLine(call.f) = <<0, 0, 0, 0>>

\* C3: a raw sample of 0.0 fed through the freshly constructed cascade of any
\* of the programs gives filtered = 0.0 and envelope = 0.0.
C3_SilenceThroughFreshCascade ==
    (Len(pushed) >= 1 /\ pushed[1].raw = 0) =>
        (pushed[1].filtered = 0 /\ pushed[1].envelope = 0)

\* C3 happens: the cascade with the notch stage took 0.0 as its first sample.
C3_Witness ==
    /\ variant = "WAVE"
    /\ Len(pushed) >= 1
    /\ pushed[1].raw = 0

\* The successive positions of main's loop in one variant.
StageOrder ==
    {<<"reinit", "generate">>, <<"reinit", "render">>, <<"generate", "highpass">>,
     <<"highpass", "bandpass">>,
     <<"bandpass", IF variant = "WAVE" THEN "notch" ELSE "rectify">>,
     <<"notch", "rectify">>, <<"rectify", "lowpass">>, <<"lowpass", "write">>,
     <<"write", "render">>, <<"render", "poll">>,
     <<"poll", IF variant = "EMG" THEN "reinit" ELSE "generate">>}

\* The output of the last filter before rectification, as that filter
\* remembers it.
LastStage == IF variant = "WAVE" THEN notch.y1 ELSE bandPassFilter.y1

\* The slot written last.
Newest == (buffer_index + BUFFER_SIZE - 1) % BUFFER_SIZE

\* C4: the stages of a tick run in the order raw, high-pass, band-pass, notch
\* (when present), rectify, low-pass: each stage took the output of the one
\* before; the filtered value stored is the output of the last stage before
\* rectification and the envelope stored is the low-pass output of the
\* absolute value of that filtered value.
C4_StageOrderAndStoredValues ==
    /\ [][pc' # pc => <<pc, pc'>> \in StageOrder]_vars
    /\ [](pc = "write" =>
            /\ highPassFilter.x1 = raw /\ highPassFilter.y1 = highpassed
            /\ bandPassFilter.x1 = highpassed /\ bandPassFilter.y1 = bandpass_filtered
            /\ variant = "WAVE" => (notch.x1 = bandpass_filtered /\ notch.y1 = notched)
            /\ rectified = FAbs(LastStage)
            /\ lowPassFilter.x1 = rectified /\ lowPassFilter.y1 = enveloped)
    /\ []((pc = "render" /\ Len(pushed) > 0) =>
            /\ raw_signal[Newest] = raw
            /\ filtered_signal[Newest] = LastStage
            /\ lowPassFilter.x1 = FAbs(filtered_signal[Newest])
            /\ envelope_signal[Newest] = lowPassFilter.y1)

\* C4 happens: a tick of the cascade with the notch stored a negative
\* filtered value and a positive envelope.
C4_Witness ==
    /\ pc = "render"
    /\ variant = "WAVE"
    /\ Len(pushed) > 0
    /\ filtered_signal[Newest] < 0
    /\ envelope_signal[Newest] > 0

\* C5: when the adjustable cutoff has changed, the loop replaces the
\* high-pass stage by a filter constructed for the new cutoff, with an
\* all-zero delay line, and leaves the band-pass and low-pass stages
\* (coefficients and delay lines) as they were.
C5_OnlyHighPassReplaced ==
    [][(pc = "reinit" /\ pc' # "reinit"
        /\ adjustable_highpass_cutoff # last_highpass_cutoff) =>
          /\ highPassFilter' = Filter("HighPass", SAMPLE_RATE,
                                      adjustable_highpass_cutoff, 0, FromInt(1))
          /\ DelayLine(highPassFilter') = <<0, 0, 0, 0>>
          /\ last_highpass_cutoff' = adjustable_highpass_cutoff
          /\ bandPassFilter' = bandPassFilter
          /\ lowPassFilter' = lowPassFilter]_vars

\* C5 happens: after some ticks the cutoff is no longer the initial one, the
\* high-pass stage is fresh and the band-pass stage still has its history.
C5_Witness ==
    /\ pc = "generate"
    /\ Len(pushed) > 0
    /\ last_highpass_cutoff # FromInt(5)
    /\ last_highpass_cutoff = adjustable_highpass_cutoff
    /\ DelayLine(highPassFilter) = <<0, 0, 0, 0>>
    /\ bandPassFilter.y1 # 0
    /\ bandPassFilter.x1 # 0

\* The positions of a tick, from the generator call to the buffer write.
TickPositions == {"generate", "highpass", "bandpass", "notch", "rectify", "lowpass", "write"}

\* C6: whatever the interleaving of key events with the loop, no step from
\* the generator call to the ring-buffer write replaces the high-pass stage:
\* its coefficients and the cutoff it was built for stay what they were.
C6_NoReplacementInsideTick ==
    [][(pc \in TickPositions) =>
          /\ Coefficients(highPassFilter') = Coefficients(highPassFilter)
          /\ last_highpass_cutoff' = last_highpass_cutoff]_vars

\* C6 happens: a cutoff key arrived while a tick was between its high-pass
\* and its write.
C6_Witness ==
    /\ pc \in {"bandpass", "rectify", "lowpass", "write"}
    /\ pending # <<>>
    /\ Head(pending) \in {<<"UP", "PRESS">>, <<"DOWN", "REPEAT">>, <<"DOWN", "PRESS">>}

\* C7: a tick writes its raw, filtered and envelope values at the same slot,
\* the write cursor, and leaves the cursor at (old cursor + 1) mod N; the
\* cursor is always in 0..N-1.
C7_OneSlotThenAdvance ==
    /\ [](buffer_index \in Slots)
    /\ [][Tick =>
            /\ raw_signal'[buffer_index] = raw
            /\ filtered_signal'[buffer_index] = LastStage
            /\ envelope_signal'[buffer_index] = enveloped
            /\ buffer_index' = (buffer_index + 1) % BUFFER_SIZE]_vars

\* C7 happens: a tick has just written the last slot and the cursor wrapped.
C7_Witness ==
    /\ pc = "render"
    /\ Len(pushed) >= BUFFER_SIZE
    /\ buffer_index = 0
    /\ envelope_signal[Newest] # 0

\* C8: the capacity of the buffers never changes; a write overwrites the
\* slot holding the oldest retained triple and changes no other slot, and
\* nothing but a write changes a slot.
C8_FixedCapacityOverwriteOldest ==
    [][/\ BUFFER_SIZE' = BUFFER_SIZE
       /\ DOMAIN raw_signal' = Slots
       /\ DOMAIN filtered_signal' = Slots
       /\ DOMAIN envelope_signal' = Slots
       /\ Tick => /\ \A s \in Slots \ {buffer_index} : Stored(s)' = Stored(s)
                  /\ Len(pushed) >= BUFFER_SIZE =>
                        Stored(buffer_index) = Values(Aged(BUFFER_SIZE - 1))
       /\ ~Tick => \A s \in Slots : Stored(s)' = Stored(s)]_vars

\* C8 happens: a write has replaced an old sample by a different one.
C8_Witness ==
    /\ pc = "render"
    /\ Len(pushed) > BUFFER_SIZE
    /\ Aged(BUFFER_SIZE).raw # Aged(0).raw

\* C9 as stated: reading at offset i yields the sample i ticks older than the
\* newest, so that offset 0 is the most recent value.
C9_OffsetZeroIsNewest ==
    Len(pushed) >= BUFFER_SIZE =>
        \A i \in Slots : ReadAt(i) = Values(Aged(i))

\* C9: reading at offset i, slot (cursor + i) mod N, yields the sample
\* N-1-i ticks older than the newest: offset 0 is the oldest retained value
\* and offset N-1 the most recent.
C9_OffsetCountsFromOldest ==
    Len(pushed) >= BUFFER_SIZE =>
        \A i \in Slots : ReadAt(i) = Values(Aged(BUFFER_SIZE - 1 - i))

\* C9 happens: the buffer is full, and its oldest and newest samples differ.
C9_Witness ==
    /\ Len(pushed) >= BUFFER_SIZE
    /\ ReadAt(0) = Values(Aged(BUFFER_SIZE - 1))
    /\ ReadAt(0).raw # Aged(0).raw

\* C10: in every variant the generator returns a finite sample, and 0 when
\* the value it computed is NaN or infinite.
C10_GeneratorReturnsFinite ==
    (call.kind = "generator" /\ call.n > 0) =>
        /\ IsFinite(call.out)
        /\ ~IsFinite(call.computed) => call.out = 0

\* C11: constructing a filter with a sample rate <= 0, a band-pass freq2 <=
\* freq1 or a Q <= 0 fails at construction time, and no filter built from
\* such a configuration ever processes a sample.
C11_InvalidConfigurationRejected ==
    (call.kind = "filter" /\ ~ValidConfig(call.config)) =>
        (call.thrown /\ call.inputs = <<>>)

ChannelNames == {"raw", "filtered", "envelope"}

\* C12: before any sample has been written the maximum scan of every channel
\* returns 0; normalize_for_display with a maximum of 0 returns its input
\* unchanged, so a channel whose maximum is 0 is drawn at its offset plus the
\* stored values themselves.
C12_ZeroMaximumShortCircuits ==
    /\ Len(pushed) = 0 =>
          \A ch \in ChannelNames :
             /\ render_signals[ch].max = 0
             /\ \A i \in Slots : render_signals[ch].y[i] = TraceOffset(variant, ch)
    /\ frame.drawn =>
          \A ch \in ChannelNames :
             frame[ch].max = 0 =>
                \A i \in Slots :
                   frame[ch].y[i] = FAdd(TraceOffset(variant, ch), frame[ch].shown[i])
    /\ \A x \in RawInputs \cup {Dec(5, 10), NaN, PInf} :
          normalize_for_display(variant, x, 0) = x

\* C12 happens: a frame was drawn from buffers that hold nothing but the
\* zeros they started with, every channel normalized by a maximum of 0.
C12_Witness ==
    /\ pc = "poll"
    /\ frame.drawn
    /\ \A ch \in ChannelNames : frame[ch].max = 0
    /\ frame.raw.y[0] = TraceOffset(variant, "raw")

\* C13: for every finite x, rectify(rectify(x)) = rectify(x) and rectify(x)
\* >= 0; the rectify step of a tick changes no filter, no generator state and
\* no buffer.
C13_RectifyIdempotentStateless ==
    /\ [](\A x \in {raw, highpassed, bandpass_filtered, notched, Dec(0 - 5, 10)} :
            IsFinite(x) => /\ rectify(rectify(x)) = rectify(x)
                           /\ rectify(x) >= 0
                           /\ rectify(x) \in {x, 0 - x})
    /\ [](pc = "lowpass" => (rectified >= 0 /\ rectify(rectified) = rectified))
    /\ [][pc = "rectify" => UNCHANGED <<filters, generator, buffers>>]_vars

\* C13 happens: a negative filtered value was rectified into a positive one
\* while filters and generator held state.
C13_Witness ==
    /\ pc = "lowpass"
    /\ Filtered < 0
    /\ rectified = 0 - Filtered
    /\ generator # GenInit
    /\ bandPassFilter.y1 # 0

\* C14: a process call on one stage changes only that stage's delay line:
\* the high-pass, band-pass, notch and low-pass steps each leave the three
\* other stages exactly as they were.
C14_StagesShareNoDelayLine ==
    [][/\ pc = "highpass" =>
             /\ UNCHANGED <<bandPassFilter, lowPassFilter, notch>>
             /\ DelayLine(highPassFilter') =
                   <<raw, highPassFilter.x1, highpassed', highPassFilter.y1>>
       /\ pc = "bandpass" =>
             /\ UNCHANGED <<highPassFilter, lowPassFilter, notch>>
             /\ DelayLine(bandPassFilter') =
                   <<highpassed, bandPassFilter.x1, bandpass_filtered', bandPassFilter.y1>>
       /\ pc = "notch" =>
             /\ UNCHANGED <<highPassFilter, bandPassFilter, lowPassFilter>>
             /\ DelayLine(notch') = <<bandpass_filtered, notch.x1, notched', notch.y1>>
       /\ pc = "lowpass" =>
             /\ UNCHANGED <<highPassFilter, bandPassFilter, notch>>
             /\ DelayLine(lowPassFilter') =
                   <<rectified, lowPassFilter.x1, enveloped', lowPassFilter.y1>>]_vars

\* C14 happens: in the second tick or later the high-pass stage has just
\* processed a sample, and the four stages hold four different delay lines.
C14_Witness ==
    /\ variant = "WAVE"
    /\ pc = "bandpass"
    /\ Len(pushed) >= 1
    /\ highPassFilter.x2 # 0
    /\ Cardinality({DelayLine(highPassFilter), DelayLine(bandPassFilter),
                     DelayLine(notch), DelayLine(lowPassFilter)}) = 4

\* A sample was generated in this step.
Sampled == call.kind = "burst" /\ call'.n = call.n + 1

\* C15: the burst trial is made on the 1st, 51st, 101st, ... generated
\* sample and on no other, whatever the ring cursor's wrap-arounds and the
\* pauses in between; a pause generates nothing and moves no cursor.
C15_TrialOnEvery50thSample ==
    /\ []((call.kind = "burst" /\ call.n > 0) =>
            (call.trial <=> (call.n - 1) % 50 = 0))
    /\ [](call.kind = "burst" => buffer_index = call.n % BUFFER_SIZE)
    /\ [][is_paused => UNCHANGED <<generator, buffer_index, t>>]_vars

\* C15 happens: after a pause and a resume the 1001st sample, the first one
\* behind the cursor's wrap, made the trial.
C15_Witness ==
    /\ call.kind = "burst"
    /\ call.n = 1001
    /\ call.trial
    /\ buffer_index = 1
    /\ call.pauses = 2

\* C16: a trial that fails while the countdown is above zero leaves the
\* multiplier as it was and the burst armed: the countdown just goes on, one
\* down for this sample.
C16_FailedTrialKeepsBurst ==
    [][(Sampled /\ call'.trial /\ ~call'.hit /\ generator.burst_duration > 0) =>
          /\ generator'.burst_factor = generator.burst_factor
          /\ generator'.burst_factor = call.scale
          /\ call'.armed = generator.burst_duration
          /\ generator'.burst_duration = generator.burst_duration - 1]_vars

\* C16 happens: the trial on the 51st sample of a burst failed, after the
\* cursor had wrapped.
C16_Witness ==
    /\ call.kind = "burst"
    /\ call.n > 1000
    /\ call.trial
    /\ ~call.hit
    /\ call.run = 51
    /\ generator.burst_duration = 49
    /\ generator.burst_factor = FromInt(2)

\* C17 as stated: a sample computed while the countdown is zero is scaled by
\* a multiplier of exactly 1.0.
C17_ZeroCountdownMeansUnity ==
    (call.kind = "burst" /\ call.n > 0 /\ generator.burst_duration = 0) =>
        generator.burst_factor = SCALE

\* C17: a sample whose call leaves the trial block with the countdown at
\* zero (no burst activated by it and none in progress) is scaled by exactly
\* 1.0; the sample whose own decrement brings the countdown to zero is the
\* last of its burst and is scaled by the burst's multiplier.
C17_UnarmedSampleIsUnscaled ==
    (call.kind = "burst" /\ call.n > 0) =>
        /\ call.armed = 0 => generator.burst_factor = SCALE
        /\ (call.armed = 1 /\ generator.burst_duration = 0) =>
              generator.burst_factor = call.scale

\* C17 happens: a sample that made no trial found the countdown at zero
\* after a burst had run out.
C17_Witness ==
    /\ call.kind = "burst"
    /\ call.n > 100
    /\ ~call.trial
    /\ call.armed = 0
    /\ call.run = 101
    /\ call.scale = Dec(15, 10)
    /\ generator.burst_factor = SCALE

\* C18: a burst that no later trial re-activates scales exactly 100
\* consecutive samples, the activating one and the 99 after it, by the
\* multiplier drawn at its activation, and the samples after them by 1.0; the
\* countdown stays in 0..100.
C18_BurstScalesHundredSamples ==
    (call.kind = "burst" /\ call.n > 0) =>
        /\ generator.burst_duration \in 0..100
        /\ call.run \in 1..100 =>
              /\ generator.burst_factor = call.scale
              /\ generator.burst_duration = 100 - call.run
        /\ call.run \in {0, 101} =>
              /\ generator.burst_factor = SCALE
              /\ generator.burst_duration = 0

\* C18 happens: the 100th sample of a burst, still scaled, with the countdown
\* run out.
C18_Witness ==
    /\ call.kind = "burst"
    /\ call.run = 100
    /\ generator.burst_duration = 0
    /\ generator.burst_factor = FromInt(2)
    /\ call.scale = FromInt(2)

\* Element i of a sequence of earlier inputs or outputs, 0.0 before the
\* first call.
Earlier(seq, i) == IF i >= 1 THEN seq[i] ELSE 0

\* C19: the n-th process call returns b0*input + b1*x1 + b2*x2 - a1*y1 -
\* a2*y2 computed from the delay line as the call found it, that is from the
\* two inputs and the two outputs before it (0.0 where there is none), and
\* leaves x1 = this input, x2 = the previous input, y1 = this output, y2 =
\* the previous output.
C19_DifferenceEquationThenShift ==
    call.kind = "filter" =>
        /\ Len(call.outputs) = Len(call.inputs)
        /\ \A n \in DOMAIN call.inputs :
              call.outputs[n] =
                 FSub(FSub(FAdd(FAdd(FMul(call.f.b0, call.inputs[n]),
                                     FMul(call.f.b1, Earlier(call.inputs, n - 1))),
                                FMul(call.f.b2, Earlier(call.inputs, n - 2))),
                           FMul(call.f.a1, Earlier(call.outputs, n - 1))),
                      FMul(call.f.a2, Earlier(call.outputs, n - 2)))
        /\ DelayLine(call.f) =
              <<Earlier(call.inputs, Len(call.inputs)),
                Earlier(call.inputs, Len(call.inputs) - 1),
                Earlier(call.outputs, Len(call.outputs)),
                Earlier(call.outputs, Len(call.outputs) - 1)>>

\* C19 happens: three calls were made on the programs' high-pass filter and
\* the four delays hold four different finite values.
C19_Witness ==
    /\ call.kind = "filter"
    /\ call.config.type = "HighPass"
    /\ call.config.sample_rate = SAMPLE_RATE
    /\ Len(call.inputs) = 3
    /\ call.inputs[3] # call.inputs[2]
    /\ call.outputs[3] # call.outputs[2]
    /\ call.f.x1 # call.f.x2
    /\ call.f.y1 # call.f.y2
    /\ call.f.y2 # 0

\* The raw coefficients of the configuration c.
RawOf(c) == RawCoefficients(c.type, c.sample_rate, c.freq1, c.freq2, c.q)

\* C20: a constructed filter of any kind, an unrecognised kind included, has
\* a0 = 1 and b0, b1, b2, a1, a2 equal to the raw coefficients divided by the
\* raw a0, before and after every process call.
C20_NormalizedByRawA0 ==
    call.kind = "filter" =>
        /\ call.f.a0 = SCALE
        /\ \E r \in {RawOf(call.config)} :
              Coefficients(call.f) =
                 <<FDiv(r.b0, r.a0), FDiv(r.b1, r.a0), FDiv(r.b2, r.a0), SCALE,
                   FDiv(r.a1, r.a0), FDiv(r.a2, r.a0)>>
        /\ call.config.type \notin FilterTypes =>
              Coefficients(call.f) = <<0, 0, 0, SCALE, 0, 0>>

\* C20 happens: a band-pass filter whose raw a0 is not 1 has processed two
\* samples with its normalized coefficients.
C20_Witness ==
    /\ call.kind = "filter"
    /\ Len(call.inputs) = 2
    /\ call.config.type = "BandPass"
    /\ ValidConfig(call.config)
    /\ RawOf(call.config).a0 # SCALE
    /\ call.f.b0 # RawOf(call.config).b0
    /\ call.outputs[2] # 0

\* C21 as stated: run side by side from zero state on the same inputs, the
\* notch stage and the pre-normalized biquad return the same output at every
\* step and hold the same x1, x2, y1, y2.
C21_NotchEqualsNormalized ==
    call.kind = "notch" =>
        /\ call.outputs = call.reference
        /\ DelayLine(call.f) = DelayLine(call.normalized)

\* The largest magnitude in a sequence of finite samples, in whole units.
LargestInput(seq) ==
    IF seq = <<>> THEN 0
    ELSE (CHOOSE m \in {Mag(seq[i]) : i \in DOMAIN seq} :
             \A i \in DOMAIN seq : Mag(seq[i]) <= m) \div SCALE

\* The rounding error two biquads may have accumulated at step i: one unit
\* of resolution per unit of signal, fed back through i steps.
RoundingSlack(i, inputs) == i * (i + 1) * (1 + LargestInput(inputs))

\* C21: run side by side from zero state on the same inputs, the notch stage
\* and the pre-normalized biquad hold the same x1 and x2, and at every step
\* their outputs, and so their y1 and y2, agree to within the accumulated
\* rounding error; they need not be equal.
C21_NotchAgreesWithinRounding ==
    call.kind = "notch" =>
        /\ call.f.x1 = call.normalized.x1
        /\ call.f.x2 = call.normalized.x2
        /\ \A i \in DOMAIN call.outputs :
              Mag(call.outputs[i] - call.reference[i]) <= RoundingSlack(i, call.inputs)
        /\ call.f.y1 = Earlier(call.outputs, Len(call.outputs))
        /\ call.f.y2 = Earlier(call.outputs, Len(call.outputs) - 1)
        /\ call.normalized.y1 = Earlier(call.reference, Len(call.reference))
        /\ call.normalized.y2 = Earlier(call.reference, Len(call.reference) - 1)

\* C21 happens: after three calls the two stages hold the same inputs and
\* outputs that differ in both delays.
C21_Witness ==
    /\ call.kind = "notch"
    /\ Len(call.inputs) = 3
    /\ call.f.x1 = call.normalized.x1
    /\ call.f.x1 # 0
    /\ call.f.y1 # call.normalized.y1
    /\ call.f.y2 # call.normalized.y2

\* Other values of the parameter a kind does not use.
OtherQs == {Dec(5, 10), Dec(707, 1000), FromInt(2), 0}
OtherFreq2s == {0, FromInt(50), FromInt(999), PInf}

\* C22: a BandPass filter has the coefficients of every BandPass filter built
\* with the same sample rate, freq1 and freq2 and another Q; a HighPass or
\* LowPass filter has the coefficients of every filter of its kind built with
\* the same sample rate, freq1 and Q and another freq2.
C22_UnusedParameterIgnored ==
    call.kind = "filter" =>
        \E c \in {call.config} :
           /\ c.type = "BandPass" =>
                 \A q \in OtherQs :
                    Coefficients(Filter(c.type, c.sample_rate, c.freq1, c.freq2, q))
                       = Coefficients(call.f)
           /\ c.type \in {"HighPass", "LowPass"} =>
                 \A freq2 \in OtherFreq2s :
                    Coefficients(Filter(c.type, c.sample_rate, c.freq1, freq2, c.q))
                       = Coefficients(call.f)

\* C22 happens: the programs' band-pass filter, whose coefficients are
\* neither zero nor NaN, has processed a sample.
C22_Witness ==
    /\ call.kind = "filter"
    /\ call.config.type = "BandPass"
    /\ call.config.freq2 = BANDPASS_HIGH
    /\ call.config.freq1 = BANDPASS_LOW
    /\ call.f.b0 > 0
    /\ call.f.a2 > 0
    /\ Len(call.inputs) = 1
    /\ call.outputs[1] > 0

\* C23: the envelope produced at every tick, the low-pass output of the
\* rectified filtered signal, is non-negative whatever the input sequence.
C23_EnvelopeNonNegative ==
    call.kind = "envelope" => (IsFinite(call.enveloped) /\ call.enveloped >= 0)

\* The presses of the space bar among queued key events.
SpacePresses(events) ==
    Cardinality({i \in DOMAIN events : events[i] = <<"SPACE", "PRESS">>})

\* C24: while paused the loop only re-checks the cutoff, renders and polls;
\* no step taken while paused changes a ring buffer, the cursor, t, the
\* generator's statics or the band-pass and low-pass stages.  The pause flag
\* changes only when glfwPollEvents delivers presses of the space bar, once
\* per press, so that two presses leave it as it was; releases do not count.
C24_PausedIterationChangesNothing ==
    /\ [](is_paused => pc \in {"reinit", "render", "poll"})
    /\ [][is_paused =>
            UNCHANGED <<buffers, t, generator, bandPassFilter, lowPassFilter, pushed>>]_vars
    /\ [][(pc = "poll" /\ pc' # "poll") =>
            (is_paused' = is_paused <=> SpacePresses(pending) % 2 = 0)]_vars
    /\ [][pc' = pc => is_paused' = is_paused]_vars
    /\ [][pc # "poll" => is_paused' = is_paused]_vars
    /\ [](\A p \in BOOLEAN :
            LET k == [is_paused |-> p, cutoff |-> adjustable_highpass_cutoff]
            IN  /\ key_callback(key_callback(k, "SPACE", "PRESS"), "SPACE", "PRESS") = k
                /\ key_callback(k, "SPACE", "PRESS").is_paused = ~p
                /\ key_callback(k, "SPACE", "RELEASE") = k)

\* C24 happens: a paused iteration has rendered, with samples in the buffers
\* and the generator advanced, and the press that will resume is queued.
C24_Witness ==
    /\ is_paused
    /\ pc = "poll"
    /\ Len(pushed) >= 2
    /\ generator # GenInit
    /\ raw_signal[0] # 0
    /\ bandPassFilter.y1 # 0
    /\ pending = <<<<"SPACE", "PRESS">>>>

\* The queued events are all DOWN presses or repeats.
AllDown(events) ==
    \A i \in DOMAIN events : events[i] \in {<<"DOWN", "PRESS">>, <<"DOWN", "REPEAT">>}

\* The two globals key_callback writes, as it takes them.
KeyState == [is_paused |-> is_paused, cutoff |-> adjustable_highpass_cutoff]

\* C25: whatever UP and DOWN events arrive, the adjustable cutoff is never
\* below 1.0; an UP press or repeat adds 0.5, a DOWN press or repeat
\* subtracts 0.5 but not below 1.0, a release changes nothing; DOWN events
\* delivered at 1.0 leave the cutoff at 1.0, and an iteration that finds the
\* cutoff equal to the one the stage was built with does not rebuild it.
C25_CutoffFloorAtOne ==
    /\ [](IsFinite(adjustable_highpass_cutoff) /\ adjustable_highpass_cutoff >= FromInt(1))
    /\ [](\A action \in {"PRESS", "REPEAT"} :
            /\ key_callback(KeyState, "UP", action).cutoff
                  = adjustable_highpass_cutoff + Dec(5, 10)
            /\ key_callback(KeyState, "DOWN", action).cutoff
                  = IF adjustable_highpass_cutoff - Dec(5, 10) < FromInt(1) THEN FromInt(1)
                    ELSE adjustable_highpass_cutoff - Dec(5, 10))
    /\ [](/\ key_callback(KeyState, "UP", "RELEASE") = KeyState
          /\ key_callback(KeyState, "DOWN", "RELEASE") = KeyState)
    /\ [][(pc = "poll" /\ pc' # "poll" /\ AllDown(pending)
           /\ adjustable_highpass_cutoff = FromInt(1)) =>
             adjustable_highpass_cutoff' = FromInt(1)]_vars
    /\ [][(pc = "reinit" /\ pc' # "reinit"
           /\ adjustable_highpass_cutoff = last_highpass_cutoff) =>
             UNCHANGED <<highPassFilter, last_highpass_cutoff>>]_vars

\* C25 happens: the cutoff has come down to 1.0, the stage was rebuilt for
\* it, and one more DOWN event is about to be dispatched.
C25_Witness ==
    /\ pc = "poll"
    /\ adjustable_highpass_cutoff = FromInt(1)
    /\ last_highpass_cutoff = FromInt(1)
    /\ highPassFilter = Filter("HighPass", SAMPLE_RATE, FromInt(1), 0, FromInt(1))
    /\ pending = <<<<"DOWN", "REPEAT">>>>

\* C26: from the generator call to the buffer write, and so at the process
\* call on the high-pass stage, the stage has the coefficients of the current
\* adjustable cutoff and last_highpass_cutoff equals it, whatever keys
\* arrived and whether the loop was paused in between; the comparison at the
\* top of an iteration rebuilds the stage exactly when the two cutoffs
\* differ, paused or not, and nothing else replaces it.
C26_StageBuiltFromCurrentCutoff ==
    /\ [](pc \in TickPositions =>
            /\ last_highpass_cutoff = adjustable_highpass_cutoff
            /\ Coefficients(highPassFilter)
                  = Coefficients(Filter("HighPass", SAMPLE_RATE,
                                        adjustable_highpass_cutoff, 0, FromInt(1))))
    /\ [][(pc = "reinit" /\ pc' # "reinit") =>
            /\ (last_highpass_cutoff' # last_highpass_cutoff
                  <=> adjustable_highpass_cutoff # last_highpass_cutoff)
            /\ last_highpass_cutoff' = adjustable_highpass_cutoff
            /\ (adjustable_highpass_cutoff # last_highpass_cutoff =>
                  highPassFilter' = Filter("HighPass", SAMPLE_RATE,
                                           adjustable_highpass_cutoff, 0, FromInt(1)))
            /\ (adjustable_highpass_cutoff = last_highpass_cutoff =>
                  highPassFilter' = highPassFilter)]_vars
    /\ [][(pc # "reinit") => last_highpass_cutoff' = last_highpass_cutoff]_vars

\* C26 happens: between the first tick and the second the loop was paused and
\* resumed and a cutoff key changed the cutoff; the stage was rebuilt for it
\* and the second sample is about to enter the stage.
C26_Witness ==
    /\ pc = "highpass"
    /\ ~is_paused
    /\ nkeys = 3
    /\ pending = <<>>
    /\ Len(pushed) = 1
    /\ last_highpass_cutoff # FromInt(5)
    /\ last_highpass_cutoff = adjustable_highpass_cutoff
    /\ DelayLine(highPassFilter) = <<0, 0, 0, 0>>

\* What the three channels hold before any write.
Unwritten == [raw |-> 0, filtered |-> 0, envelope |-> 0]

\* C27: after k ticks with k < N, reading the channels in display order
\* (slot (cursor + i) mod N for i = 0..N-1) yields N-k zeros and then the k
\* pushed values in the order they were pushed; the slots not yet written
\* hold 0; the frame on the screen shows the same.
C27_PartialFillZerosThenPushes ==
    Len(pushed) < BUFFER_SIZE =>
        /\ \A i \in Slots :
              ReadAt(i) = IF i < BUFFER_SIZE - Len(pushed) THEN Unwritten
                          ELSE Values(pushed[i - (BUFFER_SIZE - Len(pushed)) + 1])
        /\ \A s \in Slots : s >= Len(pushed) => Stored(s) = Unwritten
        /\ pc = "poll" =>
              \A i \in Slots : /\ frame.raw.shown[i] = ReadAt(i).raw
                                /\ frame.filtered.shown[i] = ReadAt(i).filtered
                                /\ frame.envelope.shown[i] = ReadAt(i).envelope

\* C27 happens: a frame drawn after two ticks into three slots, with values
\* that tell the two ticks and the empty slot apart.
C27_Witness ==
    /\ pc = "poll"
    /\ BUFFER_SIZE = 3
    /\ Len(pushed) = 2
    /\ pushed[1].raw # 0
    /\ pushed[2].raw # pushed[1].raw
    /\ pushed[1].envelope # 0
    /\ frame.raw.shown = [i \in Slots |-> IF i = 0 THEN 0 ELSE pushed[i].raw]

\* The acquisition threads that have passed the loop test and have not yet
\* left the synchronized block: each is taking or adding a sample.
Adding == {i \in DOMAIN call.threads :
              call.threads[i].pc \in {"simulate", "enter", "add", "evict"}}

\* Whenever dataBuffer's monitor is free the buffer holds at most 100 entries,
\* and so does every list getData returned.
BufferBounded ==
    /\ call.lock = 0 => Len(call.dataBuffer) <= Capacity
    /\ \A c \in DOMAIN call.callers : Len(call.callers[c].returned) <= Capacity

\* The entries are in the order in which the samples were taken.
InAcquisitionOrder ==
    \A a, b \in DOMAIN call.dataBuffer :
        a < b => call.dataBuffer[a].time < call.dataBuffer[b].time

\* A pass through the synchronized block that finds 100 entries appends the
\* new sample and removes entry 0 and nothing else.
EvictsOldest ==
    [][(call.lock # 0 /\ call'.lock = 0 /\ Len(call.dataBuffer) > Capacity) =>
          call'.dataBuffer = Tail(call.dataBuffer)]_vars

\* C28: whenever dataBuffer's monitor is not held, the buffer holds at most
\* 100 entries in acquisition order, so every list getData returns has at
\* most 100 elements; once 100 entries are held, each new sample evicts
\* exactly the oldest one.
C28_AtMostHundredInAcquisitionOrder ==
    /\ [](BufferBounded /\ (call.lock = 0 => InAcquisitionOrder))
    /\ EvictsOldest

\* C29: whatever the interleaving of startAcquisition and stopAcquisition
\* calls, at most one acquisition thread is taking or adding a sample at any
\* time, and a startAcquisition call made while isRunning is true creates no
\* thread.
C29_OneAcquisitionThread ==
    /\ [](Cardinality(Adding) <= 1)
    /\ [][\A c \in DOMAIN call.callers :
            (call.callers[c].pc # "assign" /\ call'.callers[c].pc = "assign") =>
                (~call.isRunning /\ call'.isRunning)]_vars
    /\ [][(call'.threads # call.threads /\ Len(call'.threads) # Len(call.threads)) =>
            \E c \in DOMAIN call.callers : call.callers[c].pc = "assign"]_vars

\* C30: once a stopAcquisition call has returned without being interrupted,
\* and until the next startAcquisition call, no acquisition thread is taking
\* or adding a sample and the buffer does not change.
C30_StoppedMeansNoMoreSamples ==
    /\ [](call.quiet => Adding = {})
    /\ [][(call.quiet /\ call'.quiet) => call'.dataBuffer = call.dataBuffer]_vars

=============================================================================
